---- MODULE Spec2Model ----
(***************************************************************************)
(* A model of docs-tree-ai (doctreeai): the content hasher, the per-node   *)
(* summary cache kept as files below the cache directory, the bottom-up    *)
(* tree summarizer and the README line validator.                          *)
(*                                                                         *)
(* Strings are modelled by what the code does with them:                   *)
(*   - a file or directory name is the sequence of its dot-separated       *)
(*     tokens ("a.rs" is <<"a","rs">>, ".dir_summary.json" is              *)
(*     <<"","dir_summary","json">>), a path is a sequence of names;        *)
(*   - a text is a sequence of symbols, each symbol a record;              *)
(*   - a SHA-256 digest of a text is a symbol with hex |-> text: a block of *)
(*     hex digits that no other text yields (collision freedom).           *)
(***************************************************************************)
EXTENDS Naturals, Sequences, FiniteSets, TLC

VARIABLES
    disk,        \* files below the cache directory: path -> file text
    now,         \* SystemTime::now() in seconds since the epoch
    mgr,         \* the CacheManager instance in use
    lastStore,   \* history: per node, the latest store_summary not since removed
    lastOp,      \* history: the latest cache operation and what it returned
    fs,          \* source files of the project: path -> content
    tree,        \* which project tree the scanner finds
    walk,        \* the run of generate_project_summary in progress
    hist,        \* history: the finished runs, oldest first
    edit,        \* history: what changed since the previous finished run
    readme,      \* README.md of the project and the validation pass in progress
    vhist,       \* history of the validation passes
    llm          \* the call of generate_completion in progress, and the finished ones

cacheVars == <<disk, now, mgr, lastStore, lastOp>>
walkVars == <<fs, tree, walk, hist, edit>>
readmeVars == <<readme, vhist>>
vars == <<cacheVars, walkVars, readmeVars, llm>>

----------------------------------------------------------------------------
(* Option<T> *)
None == [tag |-> "None"]
Some(v) == [tag |-> "Some", val |-> v]
IsSome(o) == o.tag = "Some"
Ok(v) == [tag |-> "Ok", val |-> v]
Err(kind) == [tag |-> "Err", val |-> kind]
IsOk(r) == r.tag = "Ok"

(* Bounds of the model *)
MaxInstances == 2
MaxRuns == 2
MaxRunsSingle == 3
MaxEdits == 1
MaxPasses == 2
MaxFailures == 1
MaxCompletions == 2
MaxDays == 3
\* the width in bits of the unsigned integers of cleanup_old_entries: the model's u64
WordBits == 24

----------------------------------------------------------------------------
(* Sequences *)
Last(s) == s[Len(s)]
Front(s) == SubSeq(s, 1, Len(s) - 1)
IsPrefix(p, s) == Len(p) <= Len(s) /\ SubSeq(s, 1, Len(p)) = p

RECURSIVE Join(_, _)
\* [String]::join(sep) over a sequence of texts
Join(texts, sep) ==
    IF texts = <<>> THEN <<>>
    ELSE IF Len(texts) = 1 THEN texts[1]
    ELSE texts[1] \o <<sep>> \o Join(Tail(texts), sep)

RECURSIVE FilterMap(_, _)
\* the values of the Some elements of a sequence of options, in order
FilterMap(opts, i) ==
    IF i > Len(opts) THEN <<>>
    ELSE IF IsSome(opts[i]) THEN <<opts[i].val>> \o FilterMap(opts, i + 1)
    ELSE FilterMap(opts, i + 1)

----------------------------------------------------------------------------
(* Texts *)
Ch(c) == [ch |-> c]
Word(w) == [w |-> w]
Lit(s) == [lit |-> s]
Space == Ch(" ")
Pipe == Ch("|")
Slash == Ch("/")
Dot == Ch(".")
Hash == Ch("#")

\* str::contains: pat occurs in text as a run of symbols
Contains(text, pat) ==
    \E i \in 1..(Len(text) + 1) :
        i + Len(pat) - 1 <= Len(text) /\ SubSeq(text, i, i + Len(pat) - 1) = pat
\* str::starts_with
StartsWith(text, pat) == IsPrefix(pat, text)
\* char::to_lowercase of one symbol
LowerSym(sym) ==
    IF "w" \in DOMAIN sym
    THEN (CASE sym.w = "API" -> Word("api") [] sym.w = "See" -> Word("see") [] OTHER -> sym)
    ELSE sym
\* str::to_lowercase
to_lowercase(text) == [i \in 1..Len(text) |-> LowerSym(text[i])]

IsWhitespace(sym) == sym = Space

RECURSIVE TrimStart(_)
TrimStart(s) == IF s # <<>> /\ IsWhitespace(Head(s)) THEN TrimStart(Tail(s)) ELSE s
RECURSIVE TrimEnd(_)
TrimEnd(s) == IF s # <<>> /\ IsWhitespace(Last(s)) THEN TrimEnd(Front(s)) ELSE s
\* str::trim
Trim(s) == TrimEnd(TrimStart(s))

----------------------------------------------------------------------------
(* hasher.rs *)

\* Sha256 of a text, as lowercase hex: one block of hex digits per text
Sha256(bytes) == [digest_of |-> bytes, output_size |-> 32]
\* format!("{hash:x}"): two lowercase hex digits per byte of the digest
LowerHex(hash) == [hex |-> hash.digest_of, chars |-> 2 * hash.output_size, case |-> "lower"]
\* format!("{hash:X}")
UpperHex(hash) == [hex |-> hash.digest_of, chars |-> 2 * hash.output_size, case |-> "upper"]
Sha256Hex(content) == LowerHex(Sha256(content))

\* compute_content_hash that formats the digest in uppercase
compute_content_hash_upper(content) == UpperHex(Sha256(content))
\* FileHasher::compute_content_hash
compute_content_hash(content) == Sha256Hex(content)

\* a digest of the size of the file alone
compute_file_hash_of_length(content) == Sha256Hex(<<Ch(Len(content))>>)
\* FileHasher::compute_file_hash: reads the file in chunks and hashes the bytes read
compute_file_hash(content) == Sha256Hex(content)

\* a digest of the children's digests whatever their order: the smallest sequence of
\* digests first
compute_directory_hash_unordered(children_hashes) ==
    LET digests == {children_hashes[i] : i \in 1..Len(children_hashes)}
    IN compute_content_hash(<<[set |-> digests], Ch(Len(children_hashes))>>)
\* a digest of the number of children alone
compute_directory_hash_of_count(children_hashes) ==
    compute_content_hash(<<Ch(Len(children_hashes))>>)
\* FileHasher::compute_directory_hash
compute_directory_hash(children_hashes) ==
    compute_content_hash(Join([i \in 1..Len(children_hashes) |-> <<children_hashes[i]>>], Pipe))

----------------------------------------------------------------------------
(* Paths *)
N(stem, ext) == <<stem, ext>>
DirName(d) == <<d>>
BasePath == <<DirName("proj")>>
CacheDirName == <<"", "doctreeai_cache">>
DirSummaryName == <<"", "dir_summary", "json">>
SummarySuffix == <<"summary", "json">>
MappingFileName == <<"readme_mapping", "json">>

\* Path::file_name
file_name(path) == IF path = <<>> THEN None ELSE Some(Last(path))
\* Path::extension: the part of the file name after its last dot
extension(path) ==
    IF path = <<>> THEN None
    ELSE LET n == Last(path)
         IN IF Len(n) < 2 \/ (Len(n) = 2 /\ n[1] = "") THEN None ELSE Some(Last(n))
\* Path::strip_prefix
strip_prefix(path, base) ==
    IF IsPrefix(base, path) THEN Some(SubSeq(path, Len(base) + 1, Len(path))) ELSE None
\* str::ends_with(".summary.json")
EndsWithSummaryJson(name) ==
    Len(name) >= 3 /\ SubSeq(name, Len(name) - 1, Len(name)) = SummarySuffix

----------------------------------------------------------------------------
(* The project on disk *)
Root == BasePath
SrcDir == BasePath \o <<DirName("src")>>
LibDir == BasePath \o <<DirName("lib")>>
ATxt == BasePath \o <<N("a", "txt")>>
ARs == BasePath \o <<N("a", "rs")>>
BRs == BasePath \o <<N("b", "rs")>>
SrcARs == SrcDir \o <<N("a", "rs")>>
LibBRs == LibDir \o <<N("b", "rs")>>
ScannerRs == SrcDir \o <<N("scanner", "rs")>>
\* a directory that bears the name of the cache record of the file a.rs
SummaryNamedDir == BasePath \o <<N("a", "rs") \o SummarySuffix>>

DirPaths == {Root, SrcDir, LibDir, SummaryNamedDir}
\* Path::is_dir, asked of the file system
is_dir(path) == path \in DirPaths

----------------------------------------------------------------------------
(* cache.rs: the records and their JSON files *)

CacheSummaryFields == {"source_path", "content_hash", "summary", "timestamp", "is_directory"}
MappingDataFields == {"version", "readme_hash", "mappings"}

CacheSummary(source_path, content_hash, summary, timestamp, is_directory) ==
    [source_path |-> source_path, content_hash |-> content_hash, summary |-> summary,
     timestamp |-> timestamp, is_directory |-> is_directory]

\* ReadmeMappingData::default
DefaultMappingData == [version |-> "1.0.0", readme_hash |-> <<>>, mappings |-> <<>>]

\* serde_json::to_string_pretty: the JSON text of a record
to_string_pretty(value) == [json |-> value]
\* a file text that is no JSON at all
Garbage == [raw |-> "garbage"]
\* serde_json::from_str::<T>: the record, when the text is a JSON object with T's fields
from_str(text, fields) ==
    IF "json" \in DOMAIN text /\ DOMAIN text.json = fields THEN Some(text.json) ELSE None

\* fs::read_to_string of a file below the cache directory
read_to_string(dsk, path) == IF path \in DOMAIN dsk THEN Some(dsk[path]) ELSE None
\* fs::write
write(dsk, path, text) == [p \in DOMAIN dsk \cup {path} |-> IF p = path THEN text ELSE dsk[p]]
\* fs::remove_file
remove_file(dsk, path) == [p \in DOMAIN dsk \ {path} |-> dsk[p]]

\* CacheManager::new: cache_dir = base_path.join(cache_dir_name)
cache_dir(base_path, cache_dir_name) == base_path \o <<cache_dir_name>>
mapping_file(cdir) == cdir \o <<MappingFileName>>

\* CacheManager::get_cache_path
get_cache_path(cdir, base_path, source_path) ==
    LET stripped == strip_prefix(source_path, base_path)
        relative_path == IF IsSome(stripped) THEN stripped.val ELSE source_path
    IN IF is_dir(source_path)
       THEN cdir \o relative_path \o <<DirSummaryName>>
       ELSE LET cache_file == cdir \o relative_path
                filename == Last(cache_file) \o SummarySuffix
            IN Front(cache_file) \o <<filename>>

\* CacheManager::get_cache_summary
get_cache_summary(dsk, cdir, base_path, source_path) ==
    LET cache_path == get_cache_path(cdir, base_path, source_path)
        content == read_to_string(dsk, cache_path)
    IN IF ~IsSome(content) THEN None ELSE from_str(content.val, CacheSummaryFields)

\* get_cached_summary without the comparison of fingerprints
get_cached_summary_any_hash(dsk, cdir, base_path, source_path, content_hash) ==
    LET cache_summary == get_cache_summary(dsk, cdir, base_path, source_path)
    IN IF IsSome(cache_summary) THEN Some(cache_summary.val.summary) ELSE None
\* CacheManager::get_cached_summary
get_cached_summary(dsk, cdir, base_path, source_path, content_hash) ==
    LET cache_path == get_cache_path(cdir, base_path, source_path)
        content == read_to_string(dsk, cache_path)
        cache_summary == IF IsSome(content) THEN from_str(content.val, CacheSummaryFields) ELSE None
    IN IF ~IsSome(content) THEN None
       ELSE IF ~IsSome(cache_summary) THEN None
       ELSE IF cache_summary.val.content_hash = content_hash
            THEN Some(cache_summary.val.summary)
            ELSE None

\* store_summary that keeps the entry in memory and writes no file
store_summary_unflushed(dsk, cdir, base_path, source_path, content_hash, summary, timestamp) ==
    dsk
\* fs::create_dir_all of the parent, or fs::write, fails: a file stands where a
\* directory is needed, or a directory where the file is to be written
StoreBlocked(dsk, cache_path) ==
    \E p \in DOMAIN dsk : p # cache_path /\ (IsPrefix(p, cache_path) \/ IsPrefix(cache_path, p))

\* CacheManager::store_summary: the files afterwards, unchanged when it returns an error
store_summary(dsk, cdir, base_path, source_path, content_hash, summary, timestamp) ==
    LET cache_path == get_cache_path(cdir, base_path, source_path)
        cache_summary == CacheSummary(source_path, content_hash, summary, timestamp,
                                      is_dir(source_path))
    IN IF StoreBlocked(dsk, cache_path) THEN dsk
       ELSE write(dsk, cache_path, to_string_pretty(cache_summary))

\* invalidate_entry that leaves the file in place
invalidate_entry_keep(dsk, cdir, base_path, source_path) ==
    dsk
\* CacheManager::invalidate_entry: the files afterwards
invalidate_entry(dsk, cdir, base_path, source_path) ==
    LET cache_path == get_cache_path(cdir, base_path, source_path)
    IN IF cache_path \in DOMAIN dsk THEN remove_file(dsk, cache_path) ELSE dsk

\* the files clear_cache_files and count_cache_files take for cache entries
IsCacheEntryFile(cdir, path) ==
    /\ IsPrefix(cdir, path) /\ Len(path) > Len(cdir)
    /\ (EndsWithSummaryJson(Last(path)) \/ Last(path) = DirSummaryName)

\* clear_cache removing the cache directory with all that is in it
clear_cache_dir(dsk, cdir) ==
    [p \in {q \in DOMAIN dsk : ~IsPrefix(cdir, q)} |-> dsk[p]]
\* CacheManager::clear_cache with clear_cache_files: the files afterwards
clear_cache(dsk, cdir) ==
    [p \in {q \in DOMAIN dsk : ~IsCacheEntryFile(cdir, q)} |-> dsk[p]]

\* CacheManager::load_mapping: the mapping data, None when the file does not parse
load_mapping(dsk, cdir) ==
    LET content == read_to_string(dsk, mapping_file(cdir))
    IN IF IsSome(content) THEN from_str(content.val, MappingDataFields)
       ELSE Some(DefaultMappingData)

\* validate_readme_hash that finds every document to be the stored one
validate_readme_hash_always(mapping_data, current_hash) == current_hash = current_hash
\* CacheManager::validate_readme_hash
validate_readme_hash(mapping_data, current_hash) == mapping_data.readme_hash = current_hash

----------------------------------------------------------------------------
(* scanner.rs *)

\* the project trees the scanner is run on: the paths below the base path
TreeNodes(t) ==
    CASE t = "single_txt" -> {Root, ATxt}
      [] t = "single_rs" -> {Root, ARs}
      [] t = "pair" -> {Root, ARs, BRs}
      [] t = "nested" -> {Root, SrcDir, SrcARs, LibDir, LibBRs}

\* to_lowercase().as_str() of the extensions matched by is_source_code_file
SourceExtensions ==
    {"rs", "py", "js", "ts", "tsx", "jsx", "go", "java", "cpp", "c", "h", "hpp",
     "cs", "php", "rb", "swift", "kt", "scala", "clj", "hs", "elm", "dart",
     "r", "jl", "ml", "fs", "pl", "sh", "bash", "zsh", "fish", "ps1",
     "html", "css", "scss", "sass", "less", "vue", "svelte", "xml", "yaml", "yml",
     "json", "toml", "ini", "cfg", "conf", "dockerfile", "makefile", "cmake",
     "sql", "graphql", "proto", "thrift", "avro", "md", "mdx", "tex", "rst"}

\* is_source_code_file that takes every file for a source file
is_source_code_file_any(path) == ~is_dir(path)
\* FileNode::is_source_code_file
is_source_code_file(path) ==
    IF is_dir(path) THEN FALSE
    ELSE LET ext == extension(path)
         IN (IF IsSome(ext) THEN ext.val ELSE "") \in SourceExtensions

\* byte order of the name tokens in use
TokenRank(tok) ==
    CASE tok = "" -> 0 [] tok = "a" -> 1 [] tok = "b" -> 2 [] tok = "lib" -> 3
      [] tok = "proj" -> 4 [] tok = "rs" -> 5 [] tok = "scanner" -> 6 [] tok = "src" -> 7
      [] tok = "txt" -> 8

RECURSIVE NameLess(_, _)
\* str::cmp of two names, token by token
NameLess(a, b) ==
    IF a = <<>> THEN b # <<>>
    ELSE IF b = <<>> THEN FALSE
    ELSE IF Head(a) = Head(b) THEN NameLess(Tail(a), Tail(b))
    ELSE TokenRank(Head(a)) < TokenRank(Head(b))

\* PathBuf::cmp of two children of one directory
PathLess(p, q) == NameLess(Last(p), Last(q))

\* the comparator of build_tree's sort_by: directories first, then by path
ChildBefore(p, q) ==
    IF is_dir(p) /\ ~is_dir(q) THEN TRUE
    ELSE IF ~is_dir(p) /\ is_dir(q) THEN FALSE
    ELSE PathLess(p, q)

RECURSIVE SortChildren(_)
\* Vec::sort_by(ChildBefore)
SortChildren(set) ==
    IF set = {} THEN <<>>
    ELSE LET first == CHOOSE p \in set : \A q \in set \ {p} : ChildBefore(p, q)
         IN <<first>> \o SortChildren(set \ {first})

\* DirectoryScanner::build_tree: the children of a node, sorted
Children(t, path) ==
    IF is_dir(path)
    THEN SortChildren({q \in TreeNodes(t) : Len(q) = Len(path) + 1 /\ Front(q) = path})
    ELSE <<>>

----------------------------------------------------------------------------
(* summarizer.rs *)

RECURSIVE PostOrder(_, _)
RECURSIVE PostOrderAll(_, _, _)
PostOrderAll(t, paths, i) ==
    IF i > Len(paths) THEN <<>> ELSE PostOrder(t, paths[i]) \o PostOrderAll(t, paths, i + 1)
\* a walk that summarizes a directory before its children
PreOrder(t, path) == <<path>> \o PostOrderAll(t, Children(t, path), 1)
\* HierarchicalSummarizer::summarize_tree: the order in which the nodes are summarized
PostOrder(t, path) == PostOrderAll(t, Children(t, path), 1) \o <<path>>

\* FileNode::get_relative_path: pathdiff::diff_paths of a node below the base path
get_relative_path(path, base) == strip_prefix(path, base)

\* the text of a name: its tokens joined by dots
NameText(name) ==
    Join([i \in 1..Len(name) |-> IF name[i] = "" THEN <<>> ELSE <<Word(name[i])>>], Dot)
\* Path::to_string_lossy: the names joined by slashes
PathText(path) == Join([i \in 1..Len(path) |-> NameText(path[i])], Slash)

\* the formatted summary of a child (summarize_directory's formatted_summary)
FormatChild(child, summary) ==
    LET rel == get_relative_path(child, BasePath).val
        fname == file_name(rel)
        child_name == IF IsSome(fname) THEN NameText(fname.val) ELSE <<Lit("unknown")>>
    IN IF is_dir(child)
       THEN <<Lit("**")>> \o child_name \o <<Lit("/** (directory): ")>> \o summary
       ELSE <<Lit("**")>> \o child_name \o <<Lit("**: ")>> \o summary

\* summarize_directory's children_summaries
ChildrenSummaries(t, path, nodes) ==
    FilterMap([i \in 1..Len(Children(t, path)) |->
                 LET child == Children(t, path)[i]
                 IN IF IsSome(nodes[child].summary)
                    THEN Some(FormatChild(child, nodes[child].summary.val))
                    ELSE None], 1)

\* children_hashes taken from the children that are files
ChildrenHashesOfFiles(t, path, nodes) ==
    FilterMap([i \in 1..Len(Children(t, path)) |->
                 IF is_dir(Children(t, path)[i]) THEN None
                 ELSE nodes[Children(t, path)[i]].content_hash], 1)
\* summarize_directory's children_hashes
ChildrenHashes(t, path, nodes) ==
    FilterMap([i \in 1..Len(Children(t, path)) |-> nodes[Children(t, path)[i]].content_hash], 1)

\* summarize_directory's fallback_summary
FallbackSummary(children_summaries) ==
    <<Lit("Contains: ")>> \o Join(children_summaries, Lit(", "))

\* FileNode::new
NewFileNode == [content_hash |-> None, summary |-> None]

----------------------------------------------------------------------------
(* Inputs of the model *)
ContentX == <<Ch("x")>>
ContentY == <<Ch("y")>>
ContentBlank == <<Space>>
\* what a file that cannot be opened gives its reader: File::open fails
Unreadable == <<[io_error |-> "open"]>>
\* bytes that are not UTF-8: they can be hashed, fs::read_to_string fails on them
NotUtf8 == <<[byte |-> 255]>>
T1 == <<Word("parser")>>
T2 == <<Word("scanner")>>
Texts == {T1, T2}
Hashes == {compute_content_hash(ContentX), compute_content_hash(ContentY)}
CacheNodes == {SrcDir, SrcARs, ARs}
\* the nodes whose latest store is remembered
TrackedNodes == CacheNodes \cup {ScannerRs}

EmptyDisk == [p \in {} |-> None]
NoOp == [op |-> "none", node |-> <<>>, hash |-> None, text |-> None, res |-> None,
         before |-> "none", had |-> FALSE, age |-> 0, panicked |-> FALSE, doc |-> <<>>]

\* CacheManager::new
NewManager(id, dsk) ==
    [id |-> id, base_path |-> BasePath, cache_dir |-> cache_dir(BasePath, CacheDirName),
     mapping_data |-> load_mapping(dsk, cache_dir(BasePath, CacheDirName)).val]

InitCache ==
    /\ disk = EmptyDisk
    /\ now = 0
    /\ mgr = NewManager(1, EmptyDisk)
    /\ lastStore = [n \in TrackedNodes |-> None]
    /\ lastOp = NoOp

----------------------------------------------------------------------------
(* The cache used on its own: the operations of CacheManager in any order *)

\* a later CacheManager::new on the same base path and cache directory name
\* it returns the error of load_mapping when the mapping file does not parse, and
\* there is no new manager then
CacheNew ==
    /\ mgr.id < MaxInstances
    /\ LET loaded == load_mapping(disk, mgr.cache_dir)
       IN /\ mgr' = IF IsSome(loaded) THEN NewManager(mgr.id + 1, disk) ELSE mgr
          /\ lastOp' = [NoOp EXCEPT !.op = "new", !.before = lastOp.op,
                           !.res = IF IsSome(loaded) THEN None ELSE Some(Err("Cache"))]
    /\ UNCHANGED <<disk, now, lastStore, walkVars, readmeVars, llm>>

CacheStore(n, h, t) ==
    LET blocked == StoreBlocked(disk, get_cache_path(mgr.cache_dir, mgr.base_path, n))
    IN /\ disk' = store_summary(disk, mgr.cache_dir, mgr.base_path, n, h, t, now)
       /\ lastStore' = IF blocked THEN lastStore
                       ELSE [lastStore EXCEPT
                               ![n] = Some([hash |-> h, text |-> t, by |-> mgr.id])]
       /\ lastOp' = [NoOp EXCEPT !.op = "store", !.node = n, !.hash = Some(h),
                                  !.text = Some(t), !.before = lastOp.op,
                                  !.res = IF blocked THEN Some(Err("Cache")) ELSE None]
    /\ UNCHANGED <<now, mgr, walkVars, readmeVars, llm>>

CacheGet(n, h) ==
    /\ lastOp' = [NoOp EXCEPT !.op = "get", !.node = n, !.hash = Some(h),
                     !.res = get_cached_summary(disk, mgr.cache_dir, mgr.base_path, n, h),
                     !.before = lastOp.op]
    /\ UNCHANGED <<disk, now, mgr, lastStore, walkVars, readmeVars, llm>>

CacheInvalidate(n) ==
    /\ disk' = invalidate_entry(disk, mgr.cache_dir, mgr.base_path, n)
    /\ lastStore' = [lastStore EXCEPT ![n] = None]
    /\ lastOp' = [NoOp EXCEPT !.op = "invalidate", !.node = n, !.before = lastOp.op,
                     !.had = IsSome(get_cache_summary(disk, mgr.cache_dir, mgr.base_path, n))]
    /\ UNCHANGED <<now, mgr, walkVars, readmeVars, llm>>

\* unsigned arithmetic of WordBits bits: the values, and what an operation gives when
\* the build wraps on overflow
Modulus == 2 ^ WordBits
Wrapping(x) == x % Modulus
Overflows(x) == x < 0 \/ x >= Modulus

\* cleanup_old_entries' cutoff_time computed without a limit of width
ExactCutoff(time, max_age_days) == time - (max_age_days * 24 * 60 * 60)

\* cleanup_old_entries' cutoff_time: now.as_secs() - (max_age_days * 24 * 60 * 60) in
\* unsigned arithmetic, None when the build checks for overflow and panics
cutoff_time(time, max_age_days, overflow_checks) ==
    LET window == max_age_days * 24 * 60 * 60
        difference == time - Wrapping(window)
    IN IF overflow_checks /\ (Overflows(window) \/ Overflows(difference))
       THEN None
       ELSE Some(Wrapping(difference))

\* CacheManager::cleanup_old_files: the files afterwards
cleanup_old_files(dsk, cdir, cutoff) ==
    [p \in {q \in DOMAIN dsk :
                ~(/\ IsCacheEntryFile(cdir, q)
                  /\ IsSome(from_str(dsk[q], CacheSummaryFields))
                  /\ from_str(dsk[q], CacheSummaryFields).val.timestamp < cutoff)}
        |-> dsk[p]]

\* CacheManager::cleanup_old_entries, in a build with or without overflow checks
CacheCleanup(max_age_days) ==
    /\ \E overflow_checks \in BOOLEAN :
          LET cutoff == cutoff_time(now, max_age_days, overflow_checks)
          IN /\ disk' = IF IsSome(cutoff)
                        THEN cleanup_old_files(disk, mgr.cache_dir, cutoff.val)
                        ELSE disk
             /\ lastOp' = [NoOp EXCEPT !.op = "cleanup", !.age = max_age_days,
                                       !.panicked = ~IsSome(cutoff), !.before = lastOp.op]
    /\ lastStore' = [n \in TrackedNodes |->
                       IF get_cache_path(mgr.cache_dir, mgr.base_path, n) \in DOMAIN disk'
                       THEN lastStore[n] ELSE None]
    /\ UNCHANGED <<now, mgr, walkVars, readmeVars, llm>>

\* a day goes by
Tick ==
    /\ now < MaxDays * 24 * 60 * 60
    /\ now' = now + 24 * 60 * 60
    /\ lastOp' = [NoOp EXCEPT !.op = "tick", !.before = lastOp.op]
    /\ UNCHANGED <<disk, mgr, lastStore, walkVars, readmeVars, llm>>

\* the file of node n's entry overwritten with text that is no record
DamageEntry(n) ==
    /\ disk' = write(disk, get_cache_path(mgr.cache_dir, mgr.base_path, n), Garbage)
    /\ lastStore' = [lastStore EXCEPT ![n] = None]
    /\ lastOp' = [NoOp EXCEPT !.op = "damage", !.node = n, !.before = lastOp.op]
    /\ UNCHANGED <<now, mgr, walkVars, readmeVars, llm>>

CacheClear ==
    /\ disk' = clear_cache(disk, mgr.cache_dir)
    /\ lastStore' = [n \in TrackedNodes |-> None]
    /\ lastOp' = [NoOp EXCEPT !.op = "clear", !.before = lastOp.op,
                     !.had = \E p \in DOMAIN disk : IsCacheEntryFile(mgr.cache_dir, p)]
    /\ UNCHANGED <<now, mgr, walkVars, readmeVars, llm>>

----------------------------------------------------------------------------
(* The tree walk: runs of generate_project_summary, with edits of the      *)
(* sources and deletions of cache entries between the runs                 *)

Contents == {ContentX, ContentY, ContentBlank}
InitialContents == {ContentX, ContentBlank}
IoContents == {ContentX, NotUtf8, Unreadable}
WalkTrees == {"pair", "nested"}
SingleTrees == {"single_txt", "single_rs"}
Files(t) == {p \in TreeNodes(t) : ~is_dir(p)}
RunBound(t) == IF t \in SingleTrees THEN MaxRunsSingle ELSE MaxRuns


(* llm.rs: generate_completion, the retry loop around every request to the *)
(* generation service                                                      *)

\* LanguageModelClient::new: max_retries
max_retries == 3
\* LanguageModelClient::new: retry_delay, in seconds
retry_delay == 2

\* what one request to the service comes back with: a message content, which may be
\* empty or blank, or a failure of the request
Responses == {Ok(t) : t \in Texts \cup {<<>>, <<Space>>}} \cup {Err("OpenAi")}

\* try_generate_completion's result for an answer of the service
try_generate_completion(answer) ==
    IF IsOk(answer) THEN Ok(Trim(answer.val)) ELSE answer

IdleLlm == [status |-> "idle", attempt |-> 0, requests |-> <<>>, slept |-> <<>>,
            result |-> None, completions |-> 0, log |-> <<>>]

InitLlm == llm = IdleLlm

\* a call of generate_completion begins: attempt = 0
GenerateCompletion ==
    /\ llm.status # "looping"
    /\ llm.completions < MaxCompletions
    /\ llm' = [IdleLlm EXCEPT !.status = "looping", !.completions = llm.completions + 1,
                              !.log = llm.log]
    /\ UNCHANGED <<cacheVars, walkVars, readmeVars>>

\* the call is over with the given result
Returns(requests, result) ==
    [llm EXCEPT !.status = "returned", !.requests = requests, !.result = Some(result),
                !.log = Append(@, [requests |-> requests, slept |-> llm.slept,
                                   result |-> result])]

\* generate_completion's match that retries once more than max_retries allows
CompletionMatchOnceMore(response) ==
    LET requests == Append(llm.requests, response)
    IN IF IsOk(response)
       THEN Returns(requests, response)
       ELSE IF llm.attempt <= max_retries
       THEN [llm EXCEPT !.attempt = @ + 1, !.requests = requests,
                        !.slept = Append(@, retry_delay * (llm.attempt + 1))]
       ELSE Returns(requests, Err("Summarizer"))

\* generate_completion's match on the result of try_generate_completion: the state of
\* the loop afterwards
CompletionMatch(response) ==
    LET requests == Append(llm.requests, response)
    IN IF IsOk(response)
       THEN Returns(requests, response)
       ELSE IF llm.attempt < max_retries
       THEN [llm EXCEPT !.attempt = @ + 1, !.requests = requests,
                        !.slept = Append(@, retry_delay * (llm.attempt + 1))]
       ELSE Returns(requests, Err("Summarizer"))

\* one turn of generate_completion's loop: a request, and the sleep after a failure
TryGenerateCompletion ==
    /\ llm.status = "looping"
    /\ \E response \in Responses : llm' = CompletionMatch(try_generate_completion(response))
    /\ UNCHANGED <<cacheVars, walkVars, readmeVars>>

\* what a call of the generation service comes back with, after its retries
ServiceResults == {Ok(t) : t \in Texts} \cup {Err("Summarizer")}
\* the same, with the number of failed calls of a behaviour bounded
ServiceOutcomes(failures) == {r \in ServiceResults : IsOk(r) \/ failures < MaxFailures}

NoEdit == [count |-> 0, kind |-> "none", node |-> <<>>]
IdleWalk == [status |-> "idle", run |-> 0, force |-> FALSE, pos |-> 0, nodes |-> <<>>,
             calls |-> {}, failed |-> {}, hits |-> {}, result |-> None, failures |-> 0,
             fatal |-> FALSE]

InitWalk(trees) ==
    /\ tree \in trees
    /\ fs \in [Files(tree) -> InitialContents]
    /\ walk = IdleWalk
    /\ hist = <<>>
    /\ edit = NoEdit

\* a project some of whose files cannot be opened or are not text
InitWalkIo ==
    /\ tree \in WalkTrees
    /\ fs \in [Files(tree) -> IoContents]
    /\ walk = IdleWalk
    /\ hist = <<>>
    /\ edit = NoEdit

\* the summarizer's CacheManager, made by run_command with the configured directory name
WalkCacheDir == cache_dir(BasePath, CacheDirName)

\* generate_project_summary up to the start of the walk: the scanner builds a fresh tree
StartRunWith(force_regeneration) ==
    /\ walk.status # "walking"
    /\ walk.run < RunBound(tree)
    /\ walk' = [IdleWalk EXCEPT !.status = "walking", !.run = walk.run + 1, !.pos = 1,
                                !.force = force_regeneration,
                                !.failures = walk.failures,
                                !.nodes = [n \in TreeNodes(tree) |-> NewFileNode]]
    /\ UNCHANGED <<fs, tree, hist, edit, cacheVars, readmeVars, llm>>

\* a run without --force
StartRun == StartRunWith(FALSE)

\* the cache asked whatever force_regeneration says
CacheLookupAlways(force_regeneration, cached) == cached
\* `if !self.force_regeneration { if let Some(cached_summary) = get_cached_summary(..) ..`
CacheLookup(force_regeneration, cached) == IF force_regeneration THEN None ELSE cached

\* the node whose turn it is in the post-order walk
Current == PostOrder(tree, Root)[walk.pos]

\* generate_project_summary answering with an empty text when the root has no summary
ProjectResultOrEmpty(nodes) ==
    IF IsSome(nodes[Root].summary) THEN Ok(nodes[Root].summary.val) ELSE Ok(<<>>)

\* generate_project_summary's result once the walk is over
ProjectResult(nodes) ==
    IF IsSome(nodes[Root].summary) THEN Ok(nodes[Root].summary.val) ELSE Err("Summarizer")

\* the walk after one node: the next node, or the end of generate_project_summary
Advance(nodes, dsk, called, failedNow, hitNow) ==
    LET last == walk.pos = Len(PostOrder(tree, Root))
        calls == walk.calls \cup called
        failed == walk.failed \cup failedNow
        hits == walk.hits \cup hitNow
        result == IF last THEN ProjectResult(nodes) ELSE None
    IN /\ walk' = [walk EXCEPT !.nodes = nodes, !.calls = calls, !.failed = failed,
                                !.hits = hits, !.pos = @ + 1, !.result = result,
                                !.failures = @ + Cardinality(failedNow),
                                !.status = IF last THEN "done" ELSE "walking"]
       /\ disk' = dsk
       /\ hist' = IF last
                  THEN Append(hist, [edit |-> edit, fs |-> fs, nodes |-> nodes, calls |-> calls,
                                     failed |-> failed, hits |-> hits, result |-> result,
                                     fatal |-> FALSE])
                  ELSE hist
       /\ edit' = IF last THEN NoEdit ELSE edit
       /\ UNCHANGED <<fs, tree, now, mgr, lastStore, lastOp, readmeVars, llm>>

\* File::open in FileHasher::compute_file_hash
CanOpen(content) == content # Unreadable

\* fs::read_to_string succeeds on text only
IsUtf8(content) == content # NotUtf8

\* an error that summarize_tree hands up with `?`: generate_project_summary returns it
Propagate(error, called) ==
    /\ walk' = [walk EXCEPT !.status = "done", !.result = Err(error), !.fatal = TRUE,
                            !.calls = @ \cup called, !.failed = @ \cup called,
                            !.failures = @ + Cardinality(called)]
    /\ hist' = Append(hist, [edit |-> edit, fs |-> fs, nodes |-> walk.nodes,
                             calls |-> walk.calls \cup called,
                             failed |-> walk.failed \cup called,
                             hits |-> walk.hits, result |-> Err(error), fatal |-> TRUE])
    /\ edit' = NoEdit
    /\ UNCHANGED <<fs, tree, cacheVars, readmeVars, llm>>

\* summarize_file handing the service's error up with `?`
FileSummaryMatchPropagating(node, hashed, content_hash, r) ==
    IF IsOk(r)
    THEN Advance([hashed EXCEPT ![node].summary = Some(r.val)],
                 store_summary(disk, WalkCacheDir, BasePath, node, content_hash, r.val, now),
                 {node}, {}, {})
    ELSE Propagate("OpenAi", {node})

\* summarize_file's match on the answer of generate_file_summary
FileSummaryMatch(node, hashed, content_hash, r) ==
    IF IsOk(r)
    THEN Advance([hashed EXCEPT ![node].summary = Some(r.val)],
                 store_summary(disk, WalkCacheDir, BasePath, node, content_hash, r.val, now),
                 {node}, {}, {})
    ELSE Advance(hashed, disk, {node}, {node}, {})

\* HierarchicalSummarizer::summarize_file
SummarizeFile ==
    /\ walk.status = "walking"
    /\ ~is_dir(Current)
    /\ LET node == Current
           content_hash == compute_file_hash(fs[node])
           hashed == [walk.nodes EXCEPT ![node].content_hash = Some(content_hash)]
           cached == get_cached_summary(disk, WalkCacheDir, BasePath, node, content_hash)
       IN IF ~is_source_code_file(node)
          THEN Advance(walk.nodes, disk, {}, {}, {})
          ELSE IF ~CanOpen(fs[node])
          THEN Propagate("Io", {})
          ELSE IF IsSome(CacheLookup(walk.force, cached))
          THEN Advance([hashed EXCEPT ![node].summary = cached], disk, {}, {}, {node})
          ELSE IF ~IsUtf8(fs[node]) \/ Trim(fs[node]) = <<>>
          THEN Advance(hashed, disk, {}, {}, {})
          ELSE \E r \in ServiceOutcomes(walk.failures) :
                  FileSummaryMatch(node, hashed, content_hash, r)

\* summarize_directory storing its fallback text as it stores the service's answer
DirectorySummaryMatchStoring(node, hashed, directory_hash, children_summaries, r) ==
    LET summary == IF IsOk(r) THEN r.val ELSE FallbackSummary(children_summaries)
    IN Advance([hashed EXCEPT ![node].summary = Some(summary)],
               store_summary(disk, WalkCacheDir, BasePath, node, directory_hash, summary, now),
               {node}, IF IsOk(r) THEN {} ELSE {node}, {})

\* summarize_directory leaving the directory without a summary when the call fails
DirectorySummaryMatchSkipping(node, hashed, directory_hash, children_summaries, r) ==
    IF IsOk(r)
    THEN Advance([hashed EXCEPT ![node].summary = Some(r.val)],
                 store_summary(disk, WalkCacheDir, BasePath, node, directory_hash, r.val, now),
                 {node}, {}, {})
    ELSE Advance(hashed, disk, {node}, {node}, {})

\* summarize_directory's match on the answer of generate_directory_summary
DirectorySummaryMatch(node, hashed, directory_hash, children_summaries, r) ==
    IF IsOk(r)
    THEN Advance([hashed EXCEPT ![node].summary = Some(r.val)],
                 store_summary(disk, WalkCacheDir, BasePath, node, directory_hash, r.val, now),
                 {node}, {}, {})
    ELSE Advance([hashed EXCEPT ![node].summary = Some(FallbackSummary(children_summaries))],
                 disk, {node}, {node}, {})

\* HierarchicalSummarizer::summarize_directory
SummarizeDirectory ==
    /\ walk.status = "walking"
    /\ is_dir(Current)
    /\ LET node == Current
           children_summaries == ChildrenSummaries(tree, node, walk.nodes)
           directory_hash == compute_directory_hash(ChildrenHashes(tree, node, walk.nodes))
           hashed == [walk.nodes EXCEPT ![node].content_hash = Some(directory_hash)]
           cached == get_cached_summary(disk, WalkCacheDir, BasePath, node, directory_hash)
       IN IF children_summaries = <<>>
          THEN Advance(walk.nodes, disk, {}, {}, {})
          ELSE IF IsSome(CacheLookup(walk.force, cached))
          THEN Advance([hashed EXCEPT ![node].summary = cached], disk, {}, {}, {node})
          ELSE \E r \in ServiceOutcomes(walk.failures) :
                  DirectorySummaryMatch(node, hashed, directory_hash, children_summaries, r)

\* an edit of one source file between two runs
EditContent(f, c) ==
    /\ walk.status = "done"
    /\ edit.count < MaxEdits
    /\ c # fs[f]
    /\ fs' = [fs EXCEPT ![f] = c]
    /\ edit' = [count |-> edit.count + 1, node |-> f,
                kind |-> IF edit.count = 0 THEN "content" ELSE "many"]
    /\ UNCHANGED <<tree, walk, hist, cacheVars, readmeVars, llm>>

\* CacheManager::invalidate_entry on one node between two runs
DeleteEntry(n) ==
    /\ walk.status = "done"
    /\ edit.count < MaxEdits
    /\ disk' = invalidate_entry(disk, WalkCacheDir, BasePath, n)
    /\ edit' = [count |-> edit.count + 1, node |-> n,
                kind |-> IF edit.count = 0
                         THEN (IF IsSome(get_cache_summary(disk, WalkCacheDir, BasePath, n))
                               THEN "delete" ELSE "delete_absent")
                         ELSE "many"]
    /\ UNCHANGED <<fs, tree, walk, hist, now, mgr, lastStore, lastOp, readmeVars, llm>>

----------------------------------------------------------------------------
(* readme_validator.rs *)

Fence == <<Ch("backtick"), Ch("backtick"), Ch("backtick")>>
RuleDash == <<Ch("-"), Ch("-"), Ch("-")>>
RuleStar == <<Ch("*"), Ch("*"), Ch("*")>>
RuleUnder == <<Ch("_"), Ch("_"), Ch("_")>>

\* the texts is_content_line looks for in a line
ContentKeywords ==
    {<<Word(k)>> : k \in {"module", "function", "class", "component", "file", "directory",
                          "API", "endpoint", "service", "manager", "handler", "validator",
                          "scanner", "client", "cache", "config", "error", "test", "util",
                          "lib"}}
    \cup {<<Word("src"), Slash>>}
    \cup {<<Dot, Word(e)>> : e \in {"rs", "py", "js", "ts", "go", "java", "cpp", "c", "h"}}

\* is_content_line that looks at the line as it stands, untrimmed
is_content_line_untrimmed(line) ==
    /\ line # <<>>
    /\ ~StartsWith(line, <<Hash>>)
    /\ ~StartsWith(line, Fence)
    /\ ~StartsWith(line, RuleDash)
    /\ ~StartsWith(line, RuleStar)
    /\ ~StartsWith(line, RuleUnder)
    /\ \E k \in ContentKeywords : Contains(line, k)

\* ReadmeValidator::is_content_line
is_content_line(line) ==
    LET trimmed == Trim(line)
    IN /\ trimmed # <<>>
       /\ ~StartsWith(trimmed, <<Hash>>)
       /\ ~StartsWith(trimmed, Fence)
       /\ ~StartsWith(trimmed, RuleDash)
       /\ ~StartsWith(trimmed, RuleStar)
       /\ ~StartsWith(trimmed, RuleUnder)
       /\ \E k \in ContentKeywords : Contains(trimmed, k)

\* the nodes whose cache entries the validator can find
ReadmeNodes == {Root, SrcARs, LibBRs}

RECURSIVE AllSummariesFrom(_, _, _)
AllSummariesFrom(dsk, cdir, paths) ==
    IF paths = <<>> THEN <<>>
    ELSE LET parsed == from_str(dsk[Head(paths)], CacheSummaryFields)
         IN (IF IsSome(parsed) THEN <<parsed.val>> ELSE <<>>)
            \o AllSummariesFrom(dsk, cdir, Tail(paths))

RECURSIVE PathSeqLess(_, _)
PathSeqLess(p, q) ==
    IF p = <<>> THEN q # <<>>
    ELSE IF q = <<>> THEN FALSE
    ELSE IF Head(p) = Head(q) THEN PathSeqLess(Tail(p), Tail(q))
    ELSE NameLess(Head(p), Head(q))

RECURSIVE SortPaths(_)
SortPaths(set) ==
    IF set = {} THEN <<>>
    ELSE LET first == CHOOSE p \in set : \A q \in set \ {p} : PathSeqLess(p, q)
         IN <<first>> \o SortPaths(set \ {first})

\* CacheManager::get_all_summaries with collect_summaries; read_dir's order is taken
\* to be the order of the paths
get_all_summaries(dsk, cdir) ==
    AllSummariesFrom(dsk, cdir, SortPaths({p \in DOMAIN dsk : IsCacheEntryFile(cdir, p)}))

\* Path::file_stem: the file name without its extension
file_stem(path) ==
    IF path = <<>> THEN <<>>
    ELSE IF IsSome(extension(path)) THEN Front(Last(path)) ELSE Last(path)

\* str::len of a text
RECURSIVE TextLen(_)
TextLen(text) ==
    IF text = <<>> THEN 0
    ELSE (IF "w" \in DOMAIN Head(text) THEN Len(Head(text).w) ELSE 1) + TextLen(Tail(text))

\* Metadata::len of a file of the cache: the braces and the summary text of a record
\* (its other fields, of a length of their own, are left out), one byte of other text
metadata_len(text) ==
    IF "json" \in DOMAIN text
    THEN 2 + (IF "summary" \in DOMAIN text.json THEN TextLen(text.json.summary) ELSE 0)
    ELSE 1

RECURSIVE TotalSize(_, _)
TotalSize(dsk, paths) ==
    IF paths = {} THEN 0
    ELSE LET p == CHOOSE q \in paths : TRUE
         IN metadata_len(dsk[p]) + TotalSize(dsk, paths \ {p})

\* CacheManager::get_cache_stats with count_cache_files: (entry_count, total_size)
get_cache_stats(dsk, cdir) ==
    LET counted == {p \in DOMAIN dsk : IsCacheEntryFile(cdir, p)}
    IN <<Cardinality(counted), TotalSize(dsk, counted)>>

RECURSIVE SplitWhitespace(_, _)
\* str::split_whitespace: the runs of symbols between whitespace
SplitWhitespace(text, cur) ==
    IF text = <<>> THEN (IF cur = <<>> THEN <<>> ELSE <<cur>>)
    ELSE IF IsWhitespace(Head(text))
         THEN (IF cur = <<>> THEN <<>> ELSE <<cur>>) \o SplitWhitespace(Tail(text), <<>>)
         ELSE SplitWhitespace(Tail(text), Append(cur, Head(text)))

RECURSIVE FilterLong(_)
FilterLong(words) ==
    IF words = <<>> THEN <<>>
    ELSE (IF TextLen(Head(words)) > 5 THEN <<Head(words)>> ELSE <<>>) \o FilterLong(Tail(words))

\* find_relevant_cache_keys's summary_keywords
SummaryKeywords(summary) ==
    LET long == FilterLong(SplitWhitespace(summary, <<>>))
    IN SubSeq(long, 1, IF Len(long) < 5 THEN Len(long) ELSE 5)

\* whether find_relevant_cache_keys pushes the key of one cache entry for a line
IsRelevant(line, summary, base_path) ==
    LET line_lower == to_lowercase(line)
        stripped == strip_prefix(summary.source_path, base_path)
        relative_path == IF IsSome(stripped) THEN stripped.val ELSE summary.source_path
        path_str == to_lowercase(PathText(relative_path))
        fname == IF relative_path = <<>> THEN <<>>
                 ELSE to_lowercase(NameText(Last(relative_path)))
        stem == to_lowercase(NameText(file_stem(relative_path)))
        keywords == SummaryKeywords(summary.summary)
        matching_keywords ==
            Cardinality({i \in 1..Len(keywords) : Contains(line_lower, to_lowercase(keywords[i]))})
    IN \/ Contains(line_lower, path_str)
       \/ Contains(line_lower, fname)
       \/ (TextLen(stem) > 3 /\ Contains(line_lower, stem))
       \/ matching_keywords >= 2

RECURSIVE RelevantKeys(_, _, _)
RelevantKeys(line, summaries, base_path) ==
    IF summaries = <<>> THEN <<>>
    ELSE LET rest == RelevantKeys(line, Front(summaries), base_path)
             key == Last(summaries).source_path
         IN IF IsRelevant(line, Last(summaries), base_path)
               /\ ~\E i \in 1..Len(rest) : rest[i] = key
            THEN Append(rest, key) ELSE rest

\* ReadmeValidator::find_relevant_cache_keys
find_relevant_cache_keys(dsk, cdir, line, base_path) ==
    RelevantKeys(line, get_all_summaries(dsk, cdir), base_path)

ReadmeLineMapping(line_number, line_content, cache_keys, last_validated_hash) ==
    [line_number |-> line_number, line_content |-> line_content, cache_keys |-> cache_keys,
     last_validated_hash |-> last_validated_hash]

RECURSIVE MappingsUpTo(_, _, _, _, _)
MappingsUpTo(dsk, cdir, lines, n, base_path) ==
    IF n = 0 THEN <<>>
    ELSE LET before == MappingsUpTo(dsk, cdir, lines, n - 1, base_path)
             cache_keys == find_relevant_cache_keys(dsk, cdir, lines[n], base_path)
         IN IF is_content_line(lines[n]) /\ cache_keys # <<>>
            THEN Append(before, ReadmeLineMapping(n, lines[n], cache_keys, None))
            ELSE before

\* generate_mappings that numbers the lines as enumerate() does, from 0
generate_mappings_from_zero(dsk, cdir, readme_content, base_path) ==
    LET mappings == MappingsUpTo(dsk, cdir, readme_content, Len(readme_content), base_path)
    IN [j \in 1..Len(mappings) |->
          [mappings[j] EXCEPT !.line_number = mappings[j].line_number - 1]]

\* ReadmeValidator::generate_mappings; a document is the sequence of its lines
generate_mappings(dsk, cdir, readme_content, base_path) ==
    MappingsUpTo(dsk, cdir, readme_content, Len(readme_content), base_path)

\* the hash of the document's text: its lines joined by newlines
ReadmeHash(readme_content) == compute_content_hash(Join(readme_content, Ch("\n")))

\* validate_readme's validation_needed for one mapping
validation_needed(dsk, cdir, base_path, mapping) ==
    \E i \in 1..Len(mapping.cache_keys) :
        LET summary == get_cache_summary(dsk, cdir, base_path, mapping.cache_keys[i])
        IN IF IsSome(summary)
           THEN mapping.last_validated_hash # Some(summary.val.content_hash)
           ELSE TRUE

\* suggest_update's relevant_summaries
RelevantSummaries(dsk, cdir, base_path, mapping) ==
    FilterMap([i \in 1..Len(mapping.cache_keys) |->
                 LET summary == get_cache_summary(dsk, cdir, base_path, mapping.cache_keys[i])
                 IN IF IsSome(summary)
                    THEN Some(NameText(Last(summary.val.source_path)) \o <<Lit(": ")>>
                              \o summary.val.summary)
                    ELSE None], 1)

----------------------------------------------------------------------------
(* The validation passes: validate_readme as run_command calls it, with    *)
(* summarizer runs rewriting cache entries and edits of README.md between  *)
(* the passes                                                              *)

Heading == <<Hash, Space, Word("proj")>>
LineA == <<Word("See"), Space, Word("src"), Slash, Word("a"), Dot, Word("rs")>>
LineB == <<Word("the"), Space, Word("lib"), Slash, Word("b"), Dot, Word("rs"), Space,
           Word("scanner")>>
DocA == <<Heading, LineA, LineB>>
DocB == <<Heading, LineA, LineB, <<Space>>>>
\* a document with an indented line
LineC == <<Space, Space>> \o LineA
DocC == <<Heading, LineC>>
Docs == {DocA, DocB, DocC}
NoChangeText == <<Word("NO_CHANGE")>>
NewLineText == <<Word("updated")>>
ProjectSummary == T1
ReadmeTexts == {T1}

IdleReadme ==
    [doc |-> None, status |-> "idle", pass |-> 0, idx |-> 0, results |-> <<>>,
     examined |-> {}, called |-> {}, eligible |-> {}, needless |-> {},
     regenerated |-> FALSE, result |-> None, answers |-> {}]
NoPasses == [checked |-> <<>>, passes |-> <<>>]

InitReadmeIdle == readme = IdleReadme /\ vhist = NoPasses
InitWalkIdle ==
    /\ tree = "nested"
    /\ fs = [f \in Files("nested") |-> ContentX]
    /\ walk = IdleWalk
    /\ hist = <<>>
    /\ edit = NoEdit

\* the fingerprints the cache holds for the keys of a mapping
KeyFingerprints(dsk, cdir, mapping) ==
    [i \in 1..Len(mapping.cache_keys) |->
        LET summary == get_cache_summary(dsk, cdir, BasePath, mapping.cache_keys[i])
        IN IF IsSome(summary) THEN Some(summary.val.content_hash) ELSE None]

\* a ValidationResult for a missing README.md that holds the title alone
SyntheticResultOfTitle(project_summary) ==
    [line_number |-> 0, current_content |-> <<>>,
     suggested_content |-> <<Hash, Space>> \o NameText(Last(BasePath)),
     reason |-> "README.md does not exist", affected_cache_entries |-> <<>>]
\* validate_readme's ValidationResult for a missing README.md
SyntheticResult(project_summary) ==
    [line_number |-> 0, current_content |-> <<>>,
     suggested_content |-> <<Hash, Space>> \o NameText(Last(BasePath)) \o <<Ch("\n"), Ch("\n")>>
                           \o project_summary,
     reason |-> "README.md does not exist", affected_cache_entries |-> <<>>]

\* the end of validate_readme
PassEnds(rd, result, checked) ==
    /\ readme' = [rd EXCEPT !.status = "done", !.result = result]
    /\ vhist' = [checked |-> checked,
                 passes |-> Append(vhist.passes, [rd EXCEPT !.status = "done",
                                                            !.result = result])]
\* validate_readme waits for the generation service
PassGoes(rd, checked) ==
    /\ readme' = rd
    /\ vhist' = [vhist EXCEPT !.checked = checked]

\* validate_readme up to its loop over the mappings, on a CacheManager made by run_command
ValidateStart ==
    /\ readme.status # "validating"
    /\ readme.pass < MaxPasses
    /\ IsSome(load_mapping(disk, WalkCacheDir))
    /\ LET manager == NewManager(mgr.id, disk)
           begun == [IdleReadme EXCEPT !.doc = readme.doc, !.pass = readme.pass + 1]
       IN IF ~IsSome(readme.doc)
          THEN /\ mgr' = manager
               /\ disk' = disk
               /\ PassEnds(begun, Ok(<<SyntheticResult(ProjectSummary)>>), vhist.checked)
          ELSE LET readme_content == readme.doc.val
                   readme_hash == ReadmeHash(readme_content)
                   changed == ~validate_readme_hash(manager.mapping_data, readme_hash)
                   new_mappings == generate_mappings(disk, manager.cache_dir, readme_content,
                                                     BasePath)
                   data == IF changed
                           THEN [manager.mapping_data EXCEPT !.readme_hash = readme_hash,
                                                             !.mappings = new_mappings]
                           ELSE manager.mapping_data
                   dsk == IF changed
                          THEN write(disk, mapping_file(manager.cache_dir),
                                     to_string_pretty(data))
                          ELSE disk
                   checked == IF changed THEN [i \in 1..Len(new_mappings) |-> None]
                              ELSE vhist.checked
                   started == [begun EXCEPT
                       !.regenerated = changed,
                       !.eligible = {i \in 1..Len(data.mappings) :
                           validation_needed(dsk, manager.cache_dir, BasePath, data.mappings[i])}]
               IN /\ mgr' = [manager EXCEPT !.mapping_data = data]
                  /\ disk' = dsk
                  /\ IF data.mappings = <<>>
                     THEN PassEnds(started, Ok(<<>>), checked)
                     ELSE PassGoes([started EXCEPT !.status = "validating", !.idx = 1], checked)
    /\ UNCHANGED <<now, lastStore, lastOp, walkVars, llm>>

\* what the generation service answers to the request for a mapping, after the
\* retries: a content, or a failure
ServiceAnswers(mapping) ==
    {Ok(NoChangeText), Ok(mapping.line_content), Ok(NewLineText), Err("Summarizer")}

\* suggest_update's ValidationResult
Suggestion(mapping, response) ==
    [line_number |-> mapping.line_number, current_content |-> mapping.line_content,
     suggested_content |-> Trim(response),
     reason |-> "Content outdated based on current code",
     affected_cache_entries |-> mapping.cache_keys]

\* one turn of validate_readme's loop over the mappings, with suggest_update
ValidateMapping ==
    /\ readme.status = "validating"
    /\ LET i == readme.idx
           mapping == mgr.mapping_data.mappings[i]
           last == i = Len(mgr.mapping_data.mappings)
           seen == KeyFingerprints(disk, mgr.cache_dir, mapping)
           unchanged == IsSome(vhist.checked[i]) /\ vhist.checked[i].val = seen
           relevant_summaries == RelevantSummaries(disk, mgr.cache_dir, BasePath, mapping)
           Next(rd, checked) ==
               IF last THEN PassEnds(rd, Ok(rd.results), checked)
               ELSE PassGoes([rd EXCEPT !.idx = i + 1], checked)
       IN IF ~validation_needed(disk, mgr.cache_dir, BasePath, mapping)
          THEN Next(readme, vhist.checked)
          ELSE LET examined == [readme EXCEPT !.examined = @ \cup {i}]
                   checked == [vhist.checked EXCEPT ![i] = Some(seen)]
               IN IF relevant_summaries = <<>>
                  THEN Next(examined, checked)
                  ELSE \E answer \in ServiceAnswers(mapping) :
                         LET r == try_generate_completion(answer)
                             called == [examined EXCEPT
                                 !.called = @ \cup {i},
                                 !.answers = @ \cup {[idx |-> i, answer |-> answer]},
                                 !.needless = IF unchanged THEN @ \cup {i} ELSE @]
                         IN IF ~IsOk(r)
                            THEN PassEnds(called, r, vhist.checked)
                            ELSE IF Trim(r.val) # NoChangeText /\ Trim(r.val) # mapping.line_content
                            THEN Next([called EXCEPT
                                         !.results = Append(@, Suggestion(mapping, r.val))],
                                      checked)
                            ELSE Next(called, checked)
    /\ UNCHANGED <<cacheVars, walkVars, llm>>

\* a summarizer run between two passes stores the summary of a node
RegenerateEntry(n, h, t) ==
    /\ readme.status # "validating"
    /\ readme.pass < MaxPasses
    /\ disk' = store_summary(disk, WalkCacheDir, BasePath, n, h, t, now)
    /\ UNCHANGED <<now, mgr, lastStore, lastOp, walkVars, readmeVars, llm>>

\* README.md is written, or edited, between two passes
EditReadme(d) ==
    /\ readme.status # "validating"
    /\ readme.pass < MaxPasses
    /\ readme.doc # Some(d)
    /\ readme' = [readme EXCEPT !.doc = Some(d)]
    /\ UNCHANGED <<cacheVars, walkVars, vhist, llm>>

\* README.md is removed between two passes
RemoveReadme ==
    /\ readme.status # "validating"
    /\ readme.pass < MaxPasses
    /\ IsSome(readme.doc)
    /\ readme' = [readme EXCEPT !.doc = None]
    /\ UNCHANGED <<cacheVars, walkVars, vhist, llm>>

----------------------------------------------------------------------------
(* Specifications *)

Init == InitCache /\ InitWalk(WalkTrees) /\ InitReadmeIdle /\ InitLlm

Next ==
    \/ StartRun
    \/ SummarizeFile
    \/ SummarizeDirectory
    \/ \E f \in Files(tree), c \in Contents : EditContent(f, c)
    \/ \E n \in TreeNodes(tree) : DeleteEntry(n)

\* runs over the trees with two files
Spec == Init /\ [][Next]_vars

InitSingle == InitCache /\ InitWalk(SingleTrees) /\ InitReadmeIdle /\ InitLlm

\* runs over the trees with a single file
SpecSingle == InitSingle /\ [][Next]_vars

InitIo == InitCache /\ InitWalkIo /\ InitReadmeIdle /\ InitLlm

SpecIo == InitIo /\ [][Next]_vars

\* a project whose files are text, blank, not text, or cannot be opened
ForceContents == {ContentX, ContentBlank, NotUtf8, Unreadable}
InitForce ==
    /\ InitCache /\ InitReadmeIdle /\ InitLlm
    /\ tree = "pair"
    /\ fs \in [Files(tree) -> ForceContents]
    /\ walk = IdleWalk
    /\ hist = <<>>
    /\ edit = NoEdit

NextForce ==
    \/ \E force_regeneration \in BOOLEAN : StartRunWith(force_regeneration)
    \/ SummarizeFile
    \/ SummarizeDirectory

\* runs with and without --force
SpecForce == InitForce /\ [][NextForce]_vars

\* summarize_tree awaits each node in turn: a walk that is under way takes its next
\* step. This is weak fairness of the step of the walk, WF_vars(WalkStep), written
\* out with the step's enabling condition, which is that a walk is under way.
WalkStep == SummarizeFile \/ SummarizeDirectory
WalkFair == []<>(walk.status # "walking") \/ []<><<WalkStep>>_vars
SpecForceFair == SpecForce /\ WalkFair

InitCacheOnly == InitCache /\ InitWalkIdle /\ InitReadmeIdle /\ InitLlm

NextCache ==
    \/ CacheNew
    \/ \E n \in CacheNodes, h \in Hashes, t \in Texts : CacheStore(n, h, t)
    \/ \E n \in CacheNodes, h \in Hashes : CacheGet(n, h)
    \/ \E n \in CacheNodes : CacheInvalidate(n)
    \/ CacheClear

\* the CacheManager used on its own
SpecCache == InitCacheOnly /\ [][NextCache]_vars

\* the CacheManager used on its own, over files that something else may damage
NextDamage ==
    \/ NextCache
    \/ \E n \in CacheNodes : DamageEntry(n)

SpecDamage == InitCacheOnly /\ [][NextDamage]_vars

InitReadme ==
    /\ InitCache /\ InitWalkIdle /\ InitLlm
    /\ readme \in {IdleReadme} \cup {[IdleReadme EXCEPT !.doc = Some(d)] : d \in Docs}
    /\ vhist = NoPasses

\* CacheManager::update_readme_mapping: the manager's mapping data afterwards
update_readme_mapping(mapping_data, readme_hash, mappings) ==
    [mapping_data EXCEPT !.readme_hash = readme_hash, !.mappings = mappings]

\* CacheManager::save_mapping: the files afterwards
save_mapping(dsk, cdir, mapping_data) ==
    write(dsk, mapping_file(cdir), to_string_pretty(mapping_data))

\* update_readme_mapping for document d, as validate_readme calls it
CacheUpdateMapping(d) ==
    LET data == update_readme_mapping(mgr.mapping_data, ReadmeHash(d),
                    generate_mappings(disk, mgr.cache_dir, d, BasePath))
    IN /\ mgr' = [mgr EXCEPT !.mapping_data = data]
       /\ disk' = save_mapping(disk, mgr.cache_dir, data)
       /\ lastOp' = [NoOp EXCEPT !.op = "update_mapping", !.doc = d, !.before = lastOp.op]
       /\ UNCHANGED <<now, lastStore, walkVars, readmeVars, llm>>

\* the operations of CacheManager on the entries and on the mapping record
NextMapping ==
    \/ CacheNew
    \/ \E n \in CacheNodes, h \in Hashes : CacheStore(n, h, T1)
    \/ CacheClear
    \/ \E d \in {DocA, DocC} : CacheUpdateMapping(d)

SpecMapping == InitCacheOnly /\ [][NextMapping]_vars

\* the mapping file is overwritten with a text that is no mapping record: an empty
\* file, or text that is no JSON
WriteMappingFile(text) ==
    /\ disk' = write(disk, mapping_file(mgr.cache_dir), text)
    /\ lastOp' = [NoOp EXCEPT !.op = "write_mapping", !.before = lastOp.op]
    /\ UNCHANGED <<now, mgr, lastStore, walkVars, readmeVars, llm>>

\* the mapping file is removed
RemoveMappingFile ==
    /\ disk' = remove_file(disk, mapping_file(mgr.cache_dir))
    /\ lastOp' = [NoOp EXCEPT !.op = "remove_mapping", !.before = lastOp.op]
    /\ UNCHANGED <<now, mgr, lastStore, walkVars, readmeVars, llm>>

\* the operations of CacheManager with a mapping file that is missing, empty, damaged
\* or sound
NextRecord ==
    \/ CacheNew
    \/ \E h \in Hashes : CacheStore(SrcARs, h, T1)
    \/ \E h \in Hashes : CacheGet(SrcARs, h)
    \/ CacheInvalidate(SrcARs)
    \/ CacheClear
    \/ CacheUpdateMapping(DocA)
    \/ \E text \in {<<>>, Garbage} : WriteMappingFile(text)
    \/ RemoveMappingFile

SpecRecord == InitCacheOnly /\ [][NextRecord]_vars

\* nodes of a project in which a directory bears the name of a file's cache record
KeyNodes == {Root, SrcDir, ARs, SrcARs, SummaryNamedDir}

\* the operations of CacheManager on the entries of these nodes
NextKeys ==
    \/ \E n \in KeyNodes, h \in Hashes : CacheStore(n, h, T1)
    \/ \E n \in KeyNodes, h \in Hashes : CacheGet(n, h)
    \/ \E n \in KeyNodes : CacheInvalidate(n)

SpecKeys == InitCacheOnly /\ [][NextKeys]_vars

\* a summary of seven words longer than five characters, each longer than the one before
Seven ==
    <<Word("parser"), Space, Word("grammar"), Space, Word("builders"), Space,
      Word("tokenizer"), Space, Word("statements"), Space, Word("expressions"), Space,
      Word("declarations")>>
LineNodes == {SrcARs, ScannerRs}
LineTexts == {T1, Seven}

\* lines that are empty, blank, marked as heading, fence or rule, and a plain one
LineHeading == <<Hash, Space>> \o LineA
LineIndentedHeading == <<Space, Hash, Space>> \o LineA
LineFence == Fence \o LineA
LineRuleDash == RuleDash \o <<Space>> \o LineA
LineRuleStar == RuleStar \o <<Space>> \o LineA
LineRuleUnder == RuleUnder \o <<Space>> \o LineA
DocMarks ==
    <<<<>>, <<Space, Space>>, LineHeading, LineIndentedHeading, LineFence, LineRuleDash,
      LineRuleStar, LineRuleUnder, LineA>>

\* lines that name a node by its stem, by its file name, or by words of its summary
LineStem == <<Word("the"), Space, Word("scanner"), Space, Word("module")>>
LineShortStem == <<Word("plan"), Space, Word("a"), Space, Word("module")>>
LineName == <<Word("in"), Space, Word("a"), Dot, Word("rs")>>
LineFirst == <<Word("parser"), Space, Word("grammar"), Space, Word("module")>>
LineLongest == <<Word("expressions"), Space, Word("declarations"), Space, Word("module")>>
LineOne == <<Word("parser"), Space, Word("module")>>
LinePlain == <<Word("parser"), Space, Word("grammar")>>
DocWords ==
    <<LineStem, LineShortStem, LineName, LineFirst, LineLongest, LineOne, LinePlain>>

LineDocs == {DocMarks, DocWords, DocC}

\* the mapping of a document's lines to the entries of the cache
NextLines ==
    \/ \E n \in LineNodes, t \in LineTexts :
          CacheStore(n, compute_content_hash(ContentX), t)
    \/ \E n \in LineNodes : CacheInvalidate(n)
    \/ \E d \in LineDocs : CacheUpdateMapping(d)

SpecLines == InitCacheOnly /\ [][NextLines]_vars

\* the ages cleanup_old_entries is called with, in days
Ages == {0, 1, 2, MaxDays + 2, 200}

\* entries stored over the days, a mapping record, and cleanup_old_entries
NextCleanup ==
    \/ \E n \in CacheNodes : CacheStore(n, compute_content_hash(ContentX), T1)
    \/ Tick
    \/ \E max_age_days \in Ages : CacheCleanup(max_age_days)
    \/ CacheUpdateMapping(DocA)

SpecCleanup == InitCacheOnly /\ [][NextCleanup]_vars

\* calls of generate_completion on their own
NextCompletion ==
    \/ GenerateCompletion
    \/ TryGenerateCompletion

SpecCompletion == InitCacheOnly /\ [][NextCompletion]_vars

\* the loop goes on: a request to the service comes back, and a sleep ends
SpecCompletionFair == SpecCompletion /\ WF_vars(TryGenerateCompletion)

NextReadme ==
    \/ ValidateStart
    \/ ValidateMapping
    \/ \E n \in ReadmeNodes, h \in Hashes, t \in ReadmeTexts : RegenerateEntry(n, h, t)
    \/ \E d \in Docs : EditReadme(d)
    \/ RemoveReadme

\* the validation passes
SpecReadme == InitReadme /\ [][NextReadme]_vars

----------------------------------------------------------------------------
(* Properties of the cache, under SpecCache *)

\* what the stores, invalidations and clears so far leave for node n under fingerprint f
Remembered(n, f) ==
    IF IsSome(lastStore[n]) /\ lastStore[n].val.hash = f
    THEN Some(lastStore[n].val.text)
    ELSE None

\* C1: after any sequence of store_summary, invalidate_entry and clear_cache,
\* get_cached_summary(n, f) is Some(t) exactly when the latest store for n that was not
\* removed since stored (n, f, t); a get that was made returned just that, and a get
\* under another fingerprint is a miss that leaves the entry as it was.
C1_RoundTrip ==
    /\ \A n \in CacheNodes, f \in Hashes :
          get_cached_summary(disk, mgr.cache_dir, mgr.base_path, n, f) = Remembered(n, f)
    /\ lastOp.op = "get" => lastOp.res = Remembered(lastOp.node, lastOp.hash.val)

\* a store, then at once a get under the stored fingerprint that returns the text
C1_Witness ==
    /\ lastOp.op = "get" /\ lastOp.before = "store"
    /\ IsSome(lastOp.res)
    /\ lastOp.res = Some(lastStore[lastOp.node].val.text)

\* C2: a step of invalidate_entry(n) leaves get_cached_summary(n, f) None for every
\* fingerprint f, leaves the files as they were when n had no entry, and leaves the
\* entry of every other node as it was.
C2_Invalidate ==
    [][lastOp'.op = "invalidate" =>
         LET n == lastOp'.node
         IN /\ \A f \in Hashes :
                 get_cached_summary(disk', mgr.cache_dir, mgr.base_path, n, f) = None
            /\ ~lastOp'.had => disk' = disk
            /\ \A m \in CacheNodes \ {n} :
                 get_cache_summary(disk', mgr.cache_dir, mgr.base_path, m)
                   = get_cache_summary(disk, mgr.cache_dir, mgr.base_path, m)]_vars

\* invalidate_entry has removed an entry while another node keeps its own
C2_Witness ==
    /\ lastOp.op = "invalidate" /\ lastOp.had
    /\ \E m \in CacheNodes \ {lastOp.node} : IsSome(lastStore[m])

\* C3: a get through a CacheManager made after the store, same node and fingerprint,
\* returns the text another instance stored, nothing but store_summary having written it.
C3_Persistence ==
    (/\ lastOp.op = "get"
     /\ IsSome(lastStore[lastOp.node])
     /\ lastStore[lastOp.node].val.by # mgr.id
     /\ lastStore[lastOp.node].val.hash = lastOp.hash.val)
    => lastOp.res = Some(lastStore[lastOp.node].val.text)

\* the second instance has read what the first one stored
C3_Witness ==
    /\ lastOp.op = "get" /\ mgr.id = 2
    /\ IsSome(lastStore[lastOp.node]) /\ lastStore[lastOp.node].val.by = 1
    /\ lastOp.res = Some(lastStore[lastOp.node].val.text)

----------------------------------------------------------------------------
(* Properties of the tree walk, under Spec and SpecSingle; hist[k] is the  *)
(* k-th finished run and hist[k].edit what was done to the tree or the     *)
(* cache since the run before it                                           *)

\* the ancestor directories of a node, up to the root
Above(n) == {d \in TreeNodes(tree) : IsPrefix(d, n) /\ d # n}
Chain(n) == {n} \cup Above(n)
\* the fingerprint run k assigned to node n, None when it assigned none
Fingerprint(k, n) == hist[k].nodes[n].content_hash
Blank(content) == Trim(content) = <<>>
\* a file that can be read as text and is not blank
HasText(content) == CanOpen(content) /\ IsUtf8(content) /\ ~Blank(content)
\* run k went through the whole tree: no error was handed up from a node
Completed(k) == ~hist[k].fatal
\* run k follows the change of the content of one file, and nothing else
ContentEdit(k) == k \in 2..Len(hist) /\ hist[k].edit.kind = "content"
Unchanged(k) == k \in 2..Len(hist) /\ hist[k].edit.kind = "none"
NeverBefore(k, f) == \A j \in 1..(k - 1) : hist[j].fs[f] # hist[k].fs[f]

\* C4 as stated: after a change of one leaf's content the fingerprint of the leaf and
\* of every ancestor differs from the previous run's, and every other node's is the same.
C4_Original ==
    \A k \in 1..Len(hist) : ContentEdit(k) =>
        LET f == hist[k].edit.node
        IN /\ \A n \in Chain(f) : Fingerprint(k, n) # Fingerprint(k - 1, n)
           /\ \A n \in TreeNodes(tree) \ Chain(f) : Fingerprint(k, n) = Fingerprint(k - 1, n)

\* C4: between two consecutive runs that both go through the whole tree and in neither
\* of which a service call fails, when the
\* content of exactly one source file changes and the file has a summary in one of the
\* two runs, the fingerprint of the file and of every ancestor directory differs from
\* the previous run's (an absent fingerprint differing from a present one), and every
\* other node's fingerprint is the same as in the previous run.
C4_Merkle ==
    \A k \in 1..Len(hist) :
        (/\ ContentEdit(k)
         /\ Completed(k) /\ Completed(k - 1)
         /\ hist[k].failed = {} /\ hist[k - 1].failed = {}
         /\ is_source_code_file(hist[k].edit.node)
         /\ \/ IsSome(hist[k].nodes[hist[k].edit.node].summary)
            \/ IsSome(hist[k - 1].nodes[hist[k].edit.node].summary))
        => LET f == hist[k].edit.node
           IN /\ \A n \in Chain(f) : Fingerprint(k, n) # Fingerprint(k - 1, n)
              /\ \A n \in TreeNodes(tree) \ Chain(f) :
                    Fingerprint(k, n) = Fingerprint(k - 1, n)

\* a file two directories deep was changed between two runs without failed calls, and
\* the sibling subtree has a fingerprint
C4_Witness ==
    /\ tree = "nested" /\ ContentEdit(2)
    /\ hist[2].edit.node = SrcARs
    /\ hist[1].failed = {} /\ hist[2].failed = {}
    /\ IsSome(Fingerprint(1, Root)) /\ IsSome(Fingerprint(2, Root))
    /\ IsSome(Fingerprint(2, LibDir))

\* C5 as stated: after a change of one node's content the re-run calls the service for
\* exactly that node and its ancestor directories.
C5_Original ==
    \A k \in 1..Len(hist) : ContentEdit(k) => hist[k].calls = Chain(hist[k].edit.node)

\* C5: after a run that went through the whole tree and in which no service call
\* failed, changing the content of one source file and re-running, the re-run going
\* through the whole tree too, calls the service for no node other than the file and its
\* ancestor directories; when the new content is readable text that is not blank, was
\* not the file's content
\* in an earlier run, and the call for the file succeeds, the service is called for
\* exactly the file and each of its ancestor directories.
C5_Locality ==
    \A k \in 1..Len(hist) :
        (/\ ContentEdit(k) /\ Completed(k) /\ Completed(k - 1)
         /\ hist[k - 1].failed = {} /\ is_source_code_file(hist[k].edit.node))
        => LET f == hist[k].edit.node
           IN /\ hist[k].calls \subseteq Chain(f)
              /\ (HasText(hist[k].fs[f]) /\ NeverBefore(k, f) /\ f \notin hist[k].failed)
                   => hist[k].calls = Chain(f)

\* the re-run called the service for the changed file and its two ancestors, and served
\* the sibling subtree from the cache
C5_Witness ==
    /\ tree = "nested" /\ ContentEdit(2)
    /\ hist[1].failed = {}
    /\ hist[2].calls = Chain(hist[2].edit.node)
    /\ Cardinality(hist[2].calls) = 3
    /\ \E n \in {LibDir, SrcDir} : n \in hist[2].hits

Scenario(f, upto) ==
    /\ Len(hist) >= upto
    /\ HasText(hist[1].fs[f]) /\ hist[1].failed = {}
    /\ upto >= 2 => Unchanged(2)
    /\ upto >= 3 => (/\ ContentEdit(3) /\ HasText(hist[3].fs[f]) /\ hist[3].failed = {})

\* C7 as stated: with one file below the root the first run fingerprints the file and
\* calls the service once, the second run makes no call and returns the same summary,
\* and the third run, after a change, sees another digest and makes one call, for the file.
C7_Original ==
    \A f \in Files(tree) :
        /\ Scenario(f, 1) => (IsSome(Fingerprint(1, f)) /\ hist[1].calls = {f})
        /\ Scenario(f, 2) => (hist[2].calls = {} /\ hist[2].result = hist[1].result)
        /\ Scenario(f, 3) => (/\ Fingerprint(3, f) # Fingerprint(2, f)
                               /\ hist[3].calls = {f})

\* C7: with one file below the root, no failed call and an empty cache at first: a file
\* such as a.txt, whose extension is not a source extension, gets no fingerprint and no
\* service call in any run, and each run ends with an error; for a source file that is
\* not blank the first run fingerprints it and calls the service twice, for the file and
\* for the root directory, the second run makes no call and returns the same summary, and
\* the third run, after a change to other text, sees another digest and again calls the
\* service for the file and for the root directory.
C7_SingleFile ==
    /\ tree = "single_txt" =>
          \A k \in 1..Len(hist) :
              /\ hist[k].calls = {} /\ Fingerprint(k, ATxt) = None
              /\ ~IsOk(hist[k].result)
    /\ tree = "single_rs" =>
          /\ Scenario(ARs, 1) => (/\ IsSome(Fingerprint(1, ARs))
                                   /\ hist[1].calls = {ARs, Root}
                                   /\ IsOk(hist[1].result))
          /\ Scenario(ARs, 2) => (hist[2].calls = {} /\ hist[2].result = hist[1].result)
          /\ Scenario(ARs, 3) => (/\ Fingerprint(3, ARs) # Fingerprint(2, ARs)
                                   /\ hist[3].calls = {ARs, Root})

\* the three runs of the scenario over a.rs are over
C7_Witness == tree = "single_rs" /\ Scenario(ARs, 3) /\ IsOk(hist[3].result)

\* the two runs of a directory with two files of text that are not blank: no failed call in the
\* first, then the cache entry of file f deleted and nothing else
Deleted(f) ==
    /\ tree = "pair" /\ Len(hist) >= 2
    /\ \A g \in Files(tree) : HasText(hist[1].fs[g])
    /\ hist[1].failed = {}
    /\ hist[2].edit.kind = "delete" /\ hist[2].edit.node = f

----------------------------------------------------------------------------
(* Properties of the validation passes, under SpecReadme; vhist.checked[i] *)
(* is the fingerprints the keys of mapping i had when it was last examined, *)
(* None since the mappings were last rebuilt                               *)

\* C9 as stated: in a pass over an unchanged document the service is not called for a
\* mapping whose keys all have the fingerprint they had when the mapping was last
\* checked; after a change of one source file it is called only for the mappings
\* whose keys include that file.
C9_Original == readme.needless = {}

\* the mapping's keys differ from its last-validated fingerprint, or it has none
NeedsExamination(mapping) ==
    \/ mapping.last_validated_hash = None
    \/ \E i \in 1..Len(mapping.cache_keys) :
          LET summary == get_cache_summary(disk, mgr.cache_dir, BasePath, mapping.cache_keys[i])
          IN IsSome(summary) /\ mapping.last_validated_hash # Some(summary.val.content_hash)

\* C10 as stated: a finished pass over a document has examined every mapping whose keys'
\* fingerprint differs from its last-validated fingerprint, or that has none recorded.
C10_Original ==
    (readme.status = "done" /\ IsSome(readme.doc)) =>
        \A i \in 1..Len(mgr.mapping_data.mappings) :
            NeedsExamination(mgr.mapping_data.mappings[i]) => i \in readme.examined

\* a step that starts a pass of validate_readme over a document
StartsPass == readme'.pass = readme.pass + 1 /\ IsSome(readme.doc)

\* C11: a pass over a document whose fingerprint is the stored readme_hash uses the
\* stored mappings as they are and writes no file; a pass over any other document, the
\* first one or one edited in whitespace alone, replaces all the mappings by those
\* generated from the document as it is, each without a last-validated fingerprint,
\* and stores them together with the document's fingerprint.
C11_Rebuild ==
    [][StartsPass =>
         LET stored == load_mapping(disk, WalkCacheDir).val
             content == readme.doc.val
             now_data == mgr'.mapping_data
         IN IF stored.readme_hash = ReadmeHash(content)
            THEN now_data = stored /\ disk' = disk
            ELSE /\ now_data.mappings = generate_mappings(disk, WalkCacheDir, content, BasePath)
                 /\ \A i \in 1..Len(now_data.mappings) :
                       /\ content[now_data.mappings[i].line_number]
                            = now_data.mappings[i].line_content
                       /\ now_data.mappings[i].last_validated_hash = None
                 /\ now_data.readme_hash = ReadmeHash(content)
                 /\ load_mapping(disk', WalkCacheDir) = Some(now_data)]_vars

\* the second pass follows an edit of the document in whitespace alone, and has rebuilt
\* the two mappings of the first
C11_Witness ==
    /\ readme.pass = 2 /\ readme.regenerated
    /\ readme.doc = Some(DocB) /\ vhist.passes[1].doc = Some(DocA)
    /\ vhist.passes[1].examined # {}
    /\ Len(mgr.mapping_data.mappings) = 2

\* the result of the pass holds a correction for the line of mapping m
Corrected(m) ==
    \E j \in 1..Len(readme.results) : readme.results[j].line_number = m.line_number

\* C12 as stated: the result holds a correction for an examined mapping only if the
\* service's answer is neither NO_CHANGE nor the text of the mapping's line, and an
\* answer that is the text of the line, whitespace at its ends included, yields none.
C12_Original ==
    \A a \in readme.answers : IsOk(a.answer) =>
        LET m == mgr.mapping_data.mappings[a.idx]
        IN /\ Corrected(m) => (a.answer.val # NoChangeText /\ a.answer.val # m.line_content)
           /\ a.answer.val = m.line_content => ~Corrected(m)

\* C13: a pass of validate_readme without README.md ends at once with one suggestion,
\* for line 0 and with no affected keys, whose text holds the project summary; it
\* calls the generation service for nothing and leaves the stored mappings, in the
\* file and in the manager, as they were.
C13_NoDocument ==
    [][(readme'.pass = readme.pass + 1 /\ readme.doc = None) =>
         /\ readme'.status = "done" /\ IsOk(readme'.result)
         /\ Len(readme'.result.val) = 1
         /\ readme'.result.val[1].line_number = 0
         /\ readme'.result.val[1].affected_cache_entries = <<>>
         /\ Contains(readme'.result.val[1].suggested_content, ProjectSummary)
         /\ readme'.called = {} /\ readme'.examined = {}
         /\ disk' = disk
         /\ Some(mgr'.mapping_data) = load_mapping(disk, WalkCacheDir)]_vars

\* the second pass found no README.md, the first having stored two mappings
C13_Witness ==
    /\ readme.pass = 2 /\ readme.status = "done" /\ readme.doc = None
    /\ Len(mgr.mapping_data.mappings) = 2
    /\ vhist.passes[1].examined # {}

----------------------------------------------------------------------------
(* The result of generate_project_summary and the failures of a walk.      *)

\* C14: a run that goes through the whole tree returns the root's summary when the root
\* ends the walk with one, and returns a summarization error exactly when the root ends
\* the walk with none, which is when no node below the root has a summary.
C14_RootResult ==
    \A k \in 1..Len(hist) : Completed(k) =>
        LET root == hist[k].nodes[Root].summary
        IN /\ IsSome(root) => hist[k].result = Ok(root.val)
           /\ hist[k].result = Err("Summarizer") <=> ~IsSome(root)
           /\ ~IsSome(root) <=>
                  \A n \in TreeNodes(tree) \ {Root} : ~IsSome(hist[k].nodes[n].summary)

\* a run that ended with a summarization error, no node having a summary, and the next
\* run, after a change, that returned the root's summary
C14_Witness ==
    /\ Len(hist) >= 2
    /\ hist[1].result = Err("Summarizer") /\ hist[1].calls = {}
    /\ IsOk(hist[2].result) /\ hist[2].result.val = hist[2].nodes[Root].summary.val

\* a step of a walk in which the service call for node n fails
CallFails(n) == walk.status = "walking" /\ Current = n /\ n \in walk'.failed \ walk.failed

\* the node the walk turns to after node n: the first node of the subtree of n's next
\* sibling, or n's parent when n is its last child
NextInOrder(n) ==
    LET parent == CHOOSE d \in TreeNodes(tree) : \E i \in 1..Len(Children(tree, d)) :
                                                     Children(tree, d)[i] = n
        siblings == Children(tree, parent)
        i == CHOOSE j \in 1..Len(siblings) : siblings[j] = n
    IN IF i = Len(siblings) THEN parent ELSE PostOrder(tree, siblings[i + 1])[1]

\* C15: when the service call for a file fails, the file is left without a summary, the
\* cache is left as it was, no error is handed up, and the walk goes on with the
\* file's remaining siblings and then its parent; the file has no summary for the rest
\* of the run.
C15_LeafFailure ==
    [][\A n \in Files(tree) :
          /\ CallFails(n) =>
                /\ ~IsSome(walk'.nodes[n].summary)
                /\ disk' = disk
                /\ ~walk'.fatal /\ walk'.status = "walking" /\ walk'.result = None
                /\ Current' = NextInOrder(n)
          /\ (n \in walk.failed /\ walk'.run = walk.run) => ~IsSome(walk'.nodes[n].summary)
      ]_vars

\* a run in which the call for a file failed ended with a root summary made from the
\* file's sibling
C15_Witness ==
    /\ walk.status = "done" /\ IsOk(walk.result)
    /\ \E f \in Files(tree) : f \in walk.failed /\ ~IsSome(walk.nodes[f].summary)

\* the directories of the tree
Directories(t) == {p \in TreeNodes(t) : is_dir(p)}

\* C16: when the service call for a directory fails, the directory, which has a child
\* with a summary, gets as its summary the formatted summaries of its children in child
\* order, joined after the words "Contains: ", and the cache is left as it was.
C16_DirectoryFallback ==
    [][\A d \in Directories(tree) : CallFails(d) =>
          LET formatted == ChildrenSummaries(tree, d, walk.nodes)
          IN /\ formatted # <<>>
             /\ walk'.nodes[d].summary =
                   Some(<<Lit("Contains: ")>> \o Join(formatted, Lit(", ")))
             /\ disk' = disk
             /\ ~walk'.fatal
      ]_vars

\* the call for the root of two summarized files failed, and the run returned the
\* fallback text
C16_Witness ==
    /\ tree = "pair" /\ walk.status = "done" /\ Root \in walk.failed
    /\ Len(ChildrenSummaries(tree, Root, walk.nodes)) = 2
    /\ walk.result = Ok(FallbackSummary(ChildrenSummaries(tree, Root, walk.nodes)))

\* C17: after a run that went through the whole tree, a directory has a summary if and
\* only if one of its children has a summary.
C17_DirectorySummary ==
    \A k \in 1..Len(hist) : Completed(k) =>
        \A d \in Directories(tree) :
            IsSome(hist[k].nodes[d].summary) <=>
                \E i \in 1..Len(Children(tree, d)) :
                    IsSome(hist[k].nodes[Children(tree, d)[i]].summary)

\* a run with a failed call ended with a directory that has a summary and a directory
\* that has none
C17_Witness ==
    /\ Len(hist) >= 1 /\ Completed(1) /\ hist[1].failed # {}
    /\ \E d \in Directories(tree) : d \in hist[1].failed /\ IsSome(hist[1].nodes[d].summary)
    /\ \E d \in Directories(tree) : ~IsSome(hist[1].nodes[d].summary)

\* a source file whose reading fails: it cannot be opened, or it is not text
ReadFails(content) == ~CanOpen(content) \/ ~IsUtf8(content)

\* C18 as stated: a source file that cannot be read, for its fingerprint or for its
\* content, never ends the run with an error of its own: the file is left without a
\* summary and the run goes through the whole tree, returning a root summary when
\* another node has one.
C18_Original ==
    \A k \in 1..Len(hist) :
        /\ Completed(k)
        /\ \A f \in Files(tree) :
              (is_source_code_file(f) /\ ReadFails(hist[k].fs[f]))
                  => ~IsSome(hist[k].nodes[f].summary)
        /\ (\E n \in TreeNodes(tree) : IsSome(hist[k].nodes[n].summary))
              => IsOk(hist[k].result)

----------------------------------------------------------------------------
(* Damaged cache records, under SpecDamage *)

\* the nodes whose cache record is there and cannot be parsed
Damaged ==
    {n \in CacheNodes :
        /\ get_cache_path(mgr.cache_dir, mgr.base_path, n) \in DOMAIN disk
        /\ ~IsSome(get_cache_summary(disk, mgr.cache_dir, mgr.base_path, n))}

\* the files without the damaged records
Undamaged ==
    [p \in DOMAIN disk \ {get_cache_path(mgr.cache_dir, mgr.base_path, n) : n \in Damaged}
        |-> disk[p]]

\* the record of node m in files dsk
EntryOf(dsk, m) == get_cache_summary(dsk, mgr.cache_dir, mgr.base_path, m)

\* C19 as stated: a damaged record is a miss for its node, and get, store,
\* get_all_summaries and stats give for the other nodes what they give when the damaged
\* records are not there.
C19_Original ==
    /\ \A n \in Damaged, f \in Hashes :
          get_cached_summary(disk, mgr.cache_dir, mgr.base_path, n, f) = None
    /\ \A m \in CacheNodes \ Damaged, f \in Hashes :
          /\ get_cached_summary(disk, mgr.cache_dir, mgr.base_path, m, f)
               = get_cached_summary(Undamaged, mgr.cache_dir, mgr.base_path, m, f)
          /\ \A t \in Texts, o \in CacheNodes \ Damaged :
               EntryOf(store_summary(disk, mgr.cache_dir, mgr.base_path, m, f, t, now), o)
                 = EntryOf(store_summary(Undamaged, mgr.cache_dir, mgr.base_path, m, f, t, now), o)
    /\ get_all_summaries(disk, mgr.cache_dir) = get_all_summaries(Undamaged, mgr.cache_dir)
    /\ get_cache_stats(disk, mgr.cache_dir) = get_cache_stats(Undamaged, mgr.cache_dir)

----------------------------------------------------------------------------
(* The order of the walk, under Spec *)

\* the nodes a walk in the given order is done with when it is at position pos
FinishedAt(order, pos) == {order[i] : i \in 1..(pos - 1)}

\* C20: in every run a directory is fingerprinted, looked up and summarized only after
\* each of its children, and each node below them, is finished; a node that is finished
\* keeps its fingerprint and summary for the rest of the run; and a step of the walk
\* works on one node: it calls the service for no other node, changes no other node,
\* and the walk then turns to the next node or ends.
C20_BottomUp ==
    [][walk.status = "walking" =>
         LET order == PostOrder(tree, Root)
             n == order[walk.pos]
             finished == FinishedAt(order, walk.pos)
         IN /\ is_dir(n) => \A c \in TreeNodes(tree) : (IsPrefix(n, c) /\ c # n) => c \in finished
            /\ n \notin finished
            /\ \A m \in TreeNodes(tree) \ {n} : walk'.nodes[m] = walk.nodes[m]
            /\ walk'.calls \ walk.calls \subseteq {n}
            /\ walk'.hits \ walk.hits \subseteq {n}
            /\ walk'.status = "walking" => walk'.pos = walk.pos + 1
      ]_vars

\* the walk has come to the root of a tree two directories deep, after a call for a
\* node below it, with one directory summarized and one without a summary
C20_Witness ==
    /\ tree = "nested" /\ walk.status = "walking" /\ Current = Root
    /\ walk.calls # {}
    /\ \E d \in Directories(tree) \ {Root} : IsSome(walk.nodes[d].summary)
    /\ \E d \in Directories(tree) \ {Root} : ~IsSome(walk.nodes[d].summary)

----------------------------------------------------------------------------
(* The retry loop, under SpecCompletionFair *)

\* C21: a call of generate_completion makes at most max_retries + 1 requests; it
\* returns the first successful response, after which it makes no request; it sleeps
\* retry_delay * k after the k-th failed request when another request follows; it
\* returns an error when the last request fails; and every call returns.
C21_BoundedRetry ==
    /\ [](/\ Len(llm.requests) <= max_retries + 1
          /\ \A k \in 1..Len(llm.slept) : llm.slept[k] = retry_delay * k
          /\ llm.status = "looping" =>
                /\ \A k \in 1..Len(llm.requests) : ~IsOk(llm.requests[k])
                /\ Len(llm.slept) = Len(llm.requests)
          /\ llm.status = "returned" =>
                LET n == Len(llm.requests)
                IN /\ n >= 1 /\ Len(llm.slept) = n - 1
                   /\ \A k \in 1..(n - 1) : ~IsOk(llm.requests[k])
                   /\ IF IsOk(llm.requests[n])
                      THEN llm.result = Some(llm.requests[n])
                      ELSE n = max_retries + 1 /\ llm.result = Some(Err("Summarizer")))
    /\ [][llm.status = "returned" => llm'.status # "looping" \/ llm'.requests = <<>>]_vars
    /\ (llm.status = "looping" ~> llm.status = "returned")

\* a call returned an error after its last request failed, and a later call returned
\* the response to its third request
C21_Witness ==
    /\ Len(llm.log) = 2
    /\ llm.log[1].result = Err("Summarizer") /\ Len(llm.log[1].requests) = max_retries + 1
    /\ IsOk(llm.log[2].result) /\ Len(llm.log[2].requests) = 3
    /\ llm.log[2].slept = <<retry_delay, retry_delay * 2>>

----------------------------------------------------------------------------
(* Failures in a validation pass, under SpecReadme *)

\* C22 as stated: a pass over a document that can be read returns no error: when the
\* service fails for a mapping, or a key of the mapping has no cache entry, the result
\* holds no correction for that mapping, and the pass goes on through the mappings
\* that remain.
C22_Original ==
    (readme.status = "done" /\ IsSome(readme.doc)) =>
        /\ IsOk(readme.result)
        /\ \A a \in readme.answers : ~IsOk(a.answer) =>
              /\ ~Corrected(mgr.mapping_data.mappings[a.idx])
              /\ \A i \in readme.eligible : i > a.idx => i \in readme.examined

----------------------------------------------------------------------------
(* clear_cache and the mapping record, under SpecMapping *)

----------------------------------------------------------------------------
(* cleanup_old_entries, under SpecCleanup *)

\* the timestamp of the record in file p, None when the file holds no record
TimestampOf(dsk, p) ==
    LET summary == from_str(dsk[p], CacheSummaryFields)
    IN IF IsSome(summary) THEN Some(summary.val.timestamp) ELSE None

\* C24 as stated: a step of cleanup_old_entries(max_age_days) does not abort and
\* removes exactly the entries whose timestamp is less than now - max_age_days * 86400,
\* leaving every other file, the mapping record among them, as it was; when
\* max_age_days * 86400 is now or more, it removes nothing.
C24_Original ==
    [][lastOp'.op = "cleanup" =>
         LET cutoff == ExactCutoff(now, lastOp'.age)
             old == {p \in DOMAIN disk :
                        /\ IsCacheEntryFile(mgr.cache_dir, p)
                        /\ IsSome(TimestampOf(disk, p))
                        /\ TimestampOf(disk, p).val < cutoff}
         IN /\ ~lastOp'.panicked
            /\ DOMAIN disk' = DOMAIN disk \ old
            /\ \A p \in DOMAIN disk' : disk'[p] = disk[p]
            /\ cutoff <= 0 => disk' = disk]_vars

----------------------------------------------------------------------------
(* The digests of hasher.rs, over the files and directories of the runs,   *)
(* under Spec                                                              *)

\* the finished runs with the files that were fingerprinted in them
Hashed == {<<k, f>> \in (1..Len(hist)) \X Files(tree) : IsSome(Fingerprint(k, f))}

Reverse(seq) == [i \in 1..Len(seq) |-> seq[Len(seq) + 1 - i]]

\* the finished runs with the directories that were fingerprinted in them
HashedDirectories ==
    {<<k, d>> \in (1..Len(hist)) \X Directories(tree) : IsSome(Fingerprint(k, d))}

\* the digests of the children of directory d in run k, in child order
ChildDigests(k, d) == ChildrenHashes(tree, d, hist[k].nodes)

\* C26 as stated: the fingerprint of a directory is compute_directory_hash of its
\* children's digests, the same whenever the digests are the same, and the digests in
\* reverse order give another fingerprint.
C26_Original ==
    \A a \in HashedDirectories :
        LET S == ChildDigests(a[1], a[2])
        IN /\ Fingerprint(a[1], a[2]).val = compute_directory_hash(S)
           /\ compute_directory_hash(Reverse(S)) # compute_directory_hash(S)

\* C26: the fingerprint of a directory is compute_directory_hash of its children's
\* digests, the same in every run and directory in which the sequence of digests is
\* the same, and the digests in reverse order give another fingerprint whenever the
\* reversed sequence is another sequence.
C26_OrderSensitive ==
    \A a \in HashedDirectories :
        LET S == ChildDigests(a[1], a[2])
        IN /\ Fingerprint(a[1], a[2]).val = compute_directory_hash(S)
           /\ \A b \in HashedDirectories :
                 S = ChildDigests(b[1], b[2]) => Fingerprint(a[1], a[2]) = Fingerprint(b[1], b[2])
           /\ Reverse(S) # S => compute_directory_hash(Reverse(S)) # compute_directory_hash(S)

\* a directory was fingerprinted from two different digests, and from the same two
\* again in the next run
C26_Witness ==
    /\ Len(hist) = 2
    /\ \E d \in Directories(tree) :
          /\ <<1, d>> \in HashedDirectories /\ <<2, d>> \in HashedDirectories
          /\ Len(ChildDigests(1, d)) = 2
          /\ Reverse(ChildDigests(1, d)) # ChildDigests(1, d)
          /\ ChildDigests(2, d) = ChildDigests(1, d)

----------------------------------------------------------------------------
(* Properties of the mapping of lines, under SpecLines *)

\* the line starts, once trimmed, with a heading marker, a code fence or a rule, or is empty
Marked(line) ==
    LET t == Trim(line)
    IN \/ t = <<>>
       \/ t[1] = Hash
       \/ \E mark \in {Fence, RuleDash, RuleStar, RuleUnder} : IsPrefix(mark, t)

\* the line holds a listed keyword, "src/" or a listed file extension
HasSignal(line) == \E k \in ContentKeywords : Contains(Trim(line), k)

\* the mappings of the record the manager holds, by line number
MappedLines == {mgr.mapping_data.mappings[j].line_number :
                    j \in 1..Len(mgr.mapping_data.mappings)}

\* C27: a line of the document is judged content-bearing exactly when, trimmed, it is
\* not empty, starts with no heading marker, code fence or rule, and holds a
\* domain-signal token; no mapping is made for an empty, heading, fence or rule line.
C27_ContentLine ==
    lastOp.op = "update_mapping" =>
        \A i \in 1..Len(lastOp.doc) :
            LET line == lastOp.doc[i]
            IN /\ is_content_line(line) <=> (~Marked(line) /\ HasSignal(line))
               /\ Marked(line) => i \notin MappedLines
               /\ i \in MappedLines => HasSignal(line)

\* the document of marked lines was mapped while the entry its lines name was cached:
\* only its unmarked line got a mapping
C27_Witness ==
    /\ lastOp.op = "update_mapping" /\ lastOp.doc = DocMarks
    /\ IsSome(lastStore[SrcARs])
    /\ MappedLines = {9}
    /\ \A i \in 1..8 : Marked(DocMarks[i])
    /\ \A i \in 3..8 : HasSignal(DocMarks[i])

\* the five longest of the words of a summary that are longer than five characters
FiveLongest(summary) ==
    LET long == FilterLong(SplitWhitespace(summary, <<>>))
        Longer(i) == {j \in 1..Len(long) :
                        \/ TextLen(long[j]) > TextLen(long[i])
                        \/ (TextLen(long[j]) = TextLen(long[i]) /\ j < i)}
    IN {long[i] : i \in {k \in 1..Len(long) : Cardinality(Longer(k)) < 5}}

\* the line names the node of a cache entry: by its relative path, its file name, its
\* stem of more than 3 characters, or two of the given words of its summary
NamesNode(line, summary, words) ==
    LET line_lower == to_lowercase(line)
        relative_path == strip_prefix(summary.source_path, BasePath).val
        last == IF relative_path = <<>> THEN <<>> ELSE Last(relative_path)
        stem == to_lowercase(NameText(file_stem(relative_path)))
    IN \/ Contains(line_lower, to_lowercase(PathText(relative_path)))
       \/ Contains(line_lower, to_lowercase(NameText(last)))
       \/ (TextLen(stem) > 3 /\ Contains(line_lower, stem))
       \/ Cardinality({w \in words : Contains(line_lower, to_lowercase(w))}) >= 2

\* the keys of the mapping made for line i of the document, none when there is no mapping
KeysOfLine(i) ==
    LET mappings == mgr.mapping_data.mappings
    IN IF i \in MappedLines
       THEN (CHOOSE j \in 1..Len(mappings) : mappings[j].line_number = i)
       ELSE 0

\* C28: find_relevant_cache_keys gives, for a line, the key of a cache entry exactly
\* when the line contains the node's relative path, its file name, its stem of more
\* than 3 characters, or at least two of the five longest words (longer than 5
\* characters) of the node's cached summary; no key is given twice.
C28_Original ==
    lastOp.op = "update_mapping" =>
        \A i \in 1..Len(lastOp.doc) :
            LET line == lastOp.doc[i]
                summaries == get_all_summaries(disk, mgr.cache_dir)
                keys == find_relevant_cache_keys(disk, mgr.cache_dir, line, BasePath)
            IN /\ {keys[j] : j \in 1..Len(keys)}
                    = {summaries[j].source_path :
                         j \in {k \in 1..Len(summaries) :
                                  NamesNode(line, summaries[k],
                                            FiveLongest(summaries[k].summary))}}
               /\ \A j, k \in 1..Len(keys) : keys[j] = keys[k] => j = k
               /\ is_content_line(line) =>
                     IF keys = <<>> THEN i \notin MappedLines
                     ELSE /\ i \in MappedLines
                          /\ mgr.mapping_data.mappings[KeysOfLine(i)].cache_keys = keys

----------------------------------------------------------------------------
(* Properties of the mappings and the corrections, under SpecReadme *)

\* what generate_mappings is to give for a document, from the files of the cache
AsMapped(mappings, dsk, doc) ==
    /\ \A i \in 1..Len(doc) :
          (\E j \in 1..Len(mappings) : mappings[j].line_number = i)
              <=> /\ is_content_line(doc[i])
                  /\ find_relevant_cache_keys(dsk, WalkCacheDir, doc[i], BasePath) # <<>>
    /\ \A j \in 1..Len(mappings) :
          LET m == mappings[j]
          IN /\ m.line_number \in 1..Len(doc)
             /\ m.line_content = doc[m.line_number]
             /\ m.cache_keys
                  = find_relevant_cache_keys(dsk, WalkCacheDir, m.line_content, BasePath)
             /\ m.last_validated_hash = None
    /\ \A j, k \in 1..Len(mappings) :
          j < k => mappings[j].line_number < mappings[k].line_number

\* the corrections follow the order of the mappings, each for a line that has one
InMappingOrder(results) ==
    /\ \A a \in 1..Len(results) : results[a].line_number \in MappedLines
    /\ \A a, b \in 1..Len(results) :
          a < b => results[a].line_number < results[b].line_number

\* C29: generate_mappings makes a mapping for a line exactly when the line is
\* content-bearing and some cache key is relevant to it; the mapping holds the 1-based
\* line number, the literal line, the relevant keys and no validated fingerprint; the
\* mappings are in strictly increasing line order, one per line at most, and the
\* corrections validate_readme returns follow that order.
C29_Mappings ==
    /\ [][(readme'.pass = readme.pass + 1 /\ readme'.regenerated)
            => AsMapped(mgr'.mapping_data.mappings, disk, readme.doc.val)]_vars
    /\ [](/\ readme.status = "validating" => InMappingOrder(readme.results)
          /\ readme.status = "done" =>
                LET pass == Last(vhist.passes)
                IN (IsSome(pass.doc) /\ IsOk(pass.result))
                      => /\ pass.result.val = pass.results
                         /\ InMappingOrder(pass.result.val))

\* a pass that mapped the document anew, left a line of it without a mapping, and
\* returned two corrections
C29_Witness ==
    /\ readme.status = "done" /\ readme.regenerated
    /\ readme.doc = Last(vhist.passes).doc
    /\ IsSome(readme.doc) /\ IsOk(readme.result)
    /\ Len(readme.result.val) = 2
    /\ Len(mgr.mapping_data.mappings) < Len(readme.doc.val)

----------------------------------------------------------------------------
(* Properties of forced regeneration, under SpecForce *)

\* the fingerprint the walk computes for the node whose turn it is
CurrentFingerprint ==
    IF is_dir(Current)
    THEN compute_directory_hash(ChildrenHashes(tree, Current, walk.nodes))
    ELSE compute_file_hash(fs[Current])

\* the node whose turn it is has something to summarize: a source file of readable,
\* non-blank text, or a directory with the summary of a child
Summarizable ==
    IF is_dir(Current)
    THEN ChildrenSummaries(tree, Current, walk.nodes) # <<>>
    ELSE /\ is_source_code_file(Current)
         /\ CanOpen(fs[Current]) /\ IsUtf8(fs[Current])
         /\ Trim(fs[Current]) # <<>>

\* the walk reaches the cache for the node whose turn it is, and the cache holds a text
\* under the node's fingerprint
WouldHit ==
    /\ IF is_dir(Current) THEN Summarizable
       ELSE is_source_code_file(Current) /\ CanOpen(fs[Current])
    /\ IsSome(get_cached_summary(disk, WalkCacheDir, BasePath, Current, CurrentFingerprint))

\* C30: with force-regeneration on, no node is answered from the cache: every source
\* file of readable, non-blank text and every directory with a child summary makes a
\* call of the generation service whatever the cache holds, and a successful answer
\* becomes the node's cache entry under the current fingerprint. With force off, a
\* cache hit adopts the cached text and makes no call and no write.
C30_Force ==
    [][walk.status = "walking" =>
         LET node == Current
             cached == get_cached_summary(disk, WalkCacheDir, BasePath, node,
                                          CurrentFingerprint)
         IN IF walk.force
            THEN /\ walk'.hits = walk.hits
                 /\ Summarizable => node \in walk'.calls
                 /\ (Summarizable /\ node \notin walk'.failed) =>
                       /\ IsSome(walk'.nodes[node].summary)
                       /\ get_cached_summary(disk', WalkCacheDir, BasePath, node,
                                             CurrentFingerprint)
                            = walk'.nodes[node].summary
            ELSE WouldHit =>
                   /\ node \notin walk'.calls
                   /\ node \in walk'.hits
                   /\ disk' = disk
                   /\ walk'.nodes[node].summary = cached]_vars

\* a forced second run called the service for a file the first run had cached, and the
\* new answer replaced the entry
C30_Witness ==
    /\ Len(hist) = 1 /\ walk.force
    /\ \E f \in Files(tree) :
          /\ hist[1].nodes[f].summary = Some(T1)
          /\ f \in walk.calls
          /\ walk.nodes[f].summary = Some(T2)
          /\ get_cached_summary(disk, WalkCacheDir, BasePath, f, compute_file_hash(fs[f]))
               = Some(T2)

\* the file whose turn it is has no text to summarize: it is blank or cannot be read
NothingToRead ==
    /\ ~is_dir(Current) /\ is_source_code_file(Current)
    /\ (ReadFails(fs[Current]) \/ Trim(fs[Current]) = <<>>)

\* C31: a leaf whose content is empty, blank or unreadable, and that is not a cache
\* hit, is skipped: it ends with no summary, no call of the generation service is made
\* for it, no cache entry is written for it, and no error is raised.
C31_Original ==
    [][(walk.status = "walking" /\ NothingToRead /\ ~(~walk.force /\ WouldHit)) =>
         /\ ~IsSome(walk'.nodes[Current].summary)
         /\ Current \notin walk'.calls
         /\ disk' = disk
         /\ ~walk'.fatal]_vars

----------------------------------------------------------------------------
(* Empty responses, under SpecCompletion *)

\* C32: an empty response of the generation service counts as a failure of the
\* service: it is retried within the retry budget, and the call returns an error when
\* every attempt is empty; no call returns an empty text as a summary.
C32_Original ==
    /\ llm.status = "returned" =>
          /\ IsOk(llm.result.val) => llm.result.val.val # <<>>
          /\ (\A k \in 1..Len(llm.requests) : llm.requests[k] = Ok(<<>>))
                => /\ ~IsOk(llm.result.val)
                   /\ Len(llm.requests) = max_retries + 1

----------------------------------------------------------------------------
(* The cache records of distinct nodes, under SpecKeys *)

\* C33: distinct nodes of a tree, files or directories, the root among them, have
\* distinct cache records, and storing, overwriting or invalidating the entry of one
\* node neither changes nor blocks the entry of another: a store leaves the node with
\* the entry stored, an invalidation with none, and every other entry as it was.
C33_Original ==
    /\ [](\A n, m \in KeyNodes :
            n # m => get_cache_path(mgr.cache_dir, mgr.base_path, n)
                       # get_cache_path(mgr.cache_dir, mgr.base_path, m))
    /\ [][\A n \in KeyNodes :
            /\ (lastOp'.op = "store" /\ lastOp'.node = n) =>
                  /\ IsSome(EntryOf(disk', n))
                  /\ Some(EntryOf(disk', n).val.content_hash) = lastOp'.hash
                  /\ Some(EntryOf(disk', n).val.summary) = lastOp'.text
                  /\ \A m \in KeyNodes \ {n} : EntryOf(disk', m) = EntryOf(disk, m)
            /\ (lastOp'.op = "invalidate" /\ lastOp'.node = n) =>
                  /\ ~IsSome(EntryOf(disk', n))
                  /\ \A m \in KeyNodes \ {n} : EntryOf(disk', m) = EntryOf(disk, m)]_vars

----------------------------------------------------------------------------
(* The last-validated fingerprint, under SpecReadme *)

\* C34: once validate_readme has examined a mapping, the mapping's last-validated
\* fingerprint holds a fingerprint observed for its cache keys, in the manager and in
\* the mapping file; a later pass over the unchanged document and unchanged cache
\* entries therefore makes no call of the generation service.
C34_Original ==
    /\ \A i \in readme.examined :
          LET mapping == mgr.mapping_data.mappings[i]
              saved == load_mapping(disk, WalkCacheDir)
          IN /\ IsSome(mapping.last_validated_hash)
             /\ \E k \in 1..Len(mapping.cache_keys) :
                   KeyFingerprints(disk, WalkCacheDir, mapping)[k]
                     = mapping.last_validated_hash
             /\ IsSome(saved) /\ saved.val.mappings[i] = mapping
    /\ \A i \in readme.called : i \notin readme.needless

----------------------------------------------------------------------------
(* Cached directory summaries, under Spec *)

\* the runs before run k in which the summary of directory d came from the service
\* and was stored
StoredIn(d, k) == {j \in 1..(k - 1) : d \in hist[j].calls \ hist[j].failed}

\* C35: whenever summarize_directory adopts a cached summary for a directory, the list
\* of formatted child summaries the directory holds in this run is the list the cached
\* summary was generated from: the directory fingerprint changes whenever the set, the
\* names or the summaries of the contributing children change.
C35_Original ==
    \A k \in 1..Len(hist) :
        \A d \in {n \in hist[k].hits : is_dir(n)} :
            StoredIn(d, k) # {} =>
                LET j == CHOOSE i \in StoredIn(d, k) : \A l \in StoredIn(d, k) : l <= i
                IN ChildrenSummaries(tree, d, hist[j].nodes)
                     = ChildrenSummaries(tree, d, hist[k].nodes)

\* the files of the cache that a step wrote or changed
Written == {p \in DOMAIN disk' : p \notin DOMAIN disk \/ disk'[p] # disk[p]}

\* C36: a step of the walk deletes no cache entry, and writes an entry only for the
\* node whose turn it is, when the call of the generation service for it succeeded:
\* the entry holds the fingerprint computed for the node in this run and the summary
\* the node adopts; every other file of the cache is left as it was.
C36_WalkFrame ==
    [][walk.status = "walking" =>
         /\ DOMAIN disk \subseteq DOMAIN disk'
         /\ \A p \in Written :
               LET entry == get_cache_summary(disk', WalkCacheDir, BasePath, Current)
               IN /\ p = get_cache_path(WalkCacheDir, BasePath, Current)
                  /\ Current \in walk'.calls \ walk'.failed
                  /\ IsSome(entry)
                  /\ Some(entry.val.content_hash) = walk'.nodes[Current].content_hash
                  /\ Some(entry.val.summary) = walk'.nodes[Current].summary
                  /\ entry.val.content_hash = CurrentFingerprint]_vars

\* a second run stored the answer of the service for one node, adopted the cached
\* summary of another, and stored nothing for a directory whose call failed
C36_Witness ==
    /\ Len(hist) = 2
    /\ \E n \in hist[2].calls \ hist[2].failed :
          /\ get_cache_summary(disk, WalkCacheDir, BasePath, n).val.summary
               = hist[2].nodes[n].summary.val
          /\ hist[1].nodes[n].summary # hist[2].nodes[n].summary
    /\ hist[2].hits # {}
    /\ \E d \in hist[2].failed :
          /\ is_dir(d) /\ IsSome(hist[2].nodes[d].summary)
          /\ get_cached_summary(disk, WalkCacheDir, BasePath, d,
                                hist[2].nodes[d].content_hash.val) = None

\* the fingerprints that went into the fingerprint of a directory
HashedInto(directory_hash) ==
    {directory_hash.hex[i] : i \in {k \in 1..Len(directory_hash.hex) :
                                       directory_hash.hex[k] # Pipe}}

\* C37: at every point of the walk a node that has a summary has a fingerprint; a
\* directory's fingerprint is computed from a list of child fingerprints that is not
\* empty and holds the fingerprint of every child that contributed a summary.
C37_Fingerprinted ==
    \A n \in DOMAIN walk.nodes :
        /\ IsSome(walk.nodes[n].summary) => IsSome(walk.nodes[n].content_hash)
        /\ (is_dir(n) /\ IsSome(walk.nodes[n].content_hash)) =>
              LET kids == Children(tree, n)
                  contributing == {c \in {kids[i] : i \in 1..Len(kids)} :
                                      IsSome(walk.nodes[c].summary)}
              IN /\ HashedInto(walk.nodes[n].content_hash.val) # {}
                 /\ \A c \in contributing :
                       /\ IsSome(walk.nodes[c].content_hash)
                       /\ walk.nodes[c].content_hash.val
                            \in HashedInto(walk.nodes[n].content_hash.val)

\* the root was fingerprinted from the fingerprints of two directories, each with a
\* summary, in a run in which a call of the service failed
C37_Witness ==
    /\ tree = "nested" /\ walk.status = "done"
    /\ IsSome(walk.nodes[Root].content_hash)
    /\ IsSome(walk.nodes[SrcDir].summary) /\ IsSome(walk.nodes[LibDir].summary)
    /\ Cardinality(HashedInto(walk.nodes[Root].content_hash.val)) = 2
    /\ walk.failed # {}

----------------------------------------------------------------------------
(* Lines that name no cached node, under SpecReadme *)

\* the line holds the path, the file name or the stem of more than 3 characters of the
\* node of a cache entry, or two keywords of its summary
HoldsNameOf(line, summary) ==
    LET line_lower == to_lowercase(line)
        relative_path == strip_prefix(summary.source_path, BasePath).val
        path_str == to_lowercase(PathText(relative_path))
        stem == to_lowercase(NameText(file_stem(relative_path)))
        keywords == SummaryKeywords(summary.summary)
    IN \/ path_str # <<>> /\ Contains(line_lower, path_str)
       \/ /\ relative_path # <<>>
          /\ Contains(line_lower, to_lowercase(NameText(Last(relative_path))))
       \/ TextLen(stem) > 3 /\ Contains(line_lower, stem)
       \/ Cardinality({i \in 1..Len(keywords) :
                          Contains(line_lower, to_lowercase(keywords[i]))}) >= 2

\* C38: a content-bearing line that holds no path, file name or stem of a cached node
\* and fewer than two keywords of a cached summary gets no cache key, and so no
\* mapping, also when the cache holds an entry for the project root, whose relative
\* path is empty: every key of a mapping is the key of a node the line names.
C38_Original ==
    [][(readme'.pass = readme.pass + 1 /\ readme'.regenerated) =>
         \A j \in 1..Len(mgr'.mapping_data.mappings) :
            LET mapping == mgr'.mapping_data.mappings[j]
            IN \A k \in 1..Len(mapping.cache_keys) :
                  HoldsNameOf(mapping.line_content,
                              get_cache_summary(disk, WalkCacheDir, BasePath,
                                                mapping.cache_keys[k]).val)]_vars

----------------------------------------------------------------------------
(* The cache and the mapping file, under SpecRecord *)

\* C39: the cache of the nodes can be used whatever the state of the mapping file:
\* when the file is missing, empty or does not parse, CacheManager::new succeeds, and
\* get_cached_summary, store_summary, invalidate_entry and clear_cache on the entries
\* of the nodes succeed.
C39_Original ==
    [][/\ lastOp'.op = "new" => (lastOp'.res = None /\ mgr'.id = mgr.id + 1)
       /\ lastOp'.op = "store" =>
             get_cached_summary(disk', mgr.cache_dir, mgr.base_path, lastOp'.node,
                                lastOp'.hash.val) = lastOp'.text
       /\ lastOp'.op = "invalidate" =>
             get_cache_summary(disk', mgr.cache_dir, mgr.base_path, lastOp'.node) = None
       /\ lastOp'.op = "clear" =>
             get_cache_summary(disk', mgr.cache_dir, mgr.base_path, SrcARs) = None]_vars

----------------------------------------------------------------------------
(* Termination of the walk, under SpecForceFair *)

\* C40: generate_project_summary terminates whatever the tree holds and whatever the
\* service answers: each step of the walk processes a node not processed before in the
\* run and makes at most one request of the service, for that node; a run that has
\* ended has processed every node of the tree; and every run ends.
C40_Original ==
    /\ [][walk.status = "walking" =>
            LET order == PostOrder(tree, Root)
                processed == {order[i] : i \in 1..(walk.pos - 1)}
            IN /\ Current \notin processed
               /\ walk.calls \subseteq processed
               /\ walk'.calls \subseteq walk.calls \cup {Current}
               /\ walk'.status = "walking" => walk'.pos = walk.pos + 1
               /\ walk'.status = "done" => processed \cup {Current} = TreeNodes(tree)]_vars
    /\ (walk.status = "walking" ~> walk.status = "done")

====
